---- MODULE Spec2Model ----
(***************************************************************************)
(* State-machine model of the workout commit engine (fitness/logic.rs)     *)
(* and of the import pipeline and job lifecycle (importer/mod.rs).         *)
(*                                                                         *)
(* Decimals are integers counted in units of 1/DecScale; a projection of   *)
(* a set (a personal-best metric) is an exact rational [n, d].             *)
(* Option<T> is a sequence of length 0 (None) or 1 (Some).                 *)
(***************************************************************************)
EXTENDS Integers, Sequences, FiniteSets, TLC

\* ------------------------------------------------------------------ bounds
MaxExercises == 2
MaxSaveHistory == 2
MaxJobs == 2
MaxTicks == 3
MaxMedia == 3

\* ------------------------------------------------------- program constants
DecScale == 100000
LbToKg == 45359
MiToKm == 160934
OneRmNum == 36
OneRmDen == 37
DefaultNumTimesInteracted == 1
StaleAfterHours == 24
\* the clock moves in steps of half the threshold
TickHours == StaleAfterHours \div 2
FullProgress == 100
OutOfFiveDivisor == 20

\* ------------------------------------------------------------------ options
None == << >>
Some(x) == << x >>
IsSome(o) == Len(o) = 1
Get(o) == o[1]

Min(a, b) == IF a < b THEN a ELSE b

RECURSIVE Gcd(_, _)
Gcd(a, b) == IF b = 0 THEN a ELSE Gcd(b, a % b)

\* a whole number as a decimal
Dec(n) == n * DecScale

\* the product of a decimal a and a decimal factor f, both in units of
\* 1/DecScale, truncated to that unit; computed in parts that stay within
\* 32 bits
MulDec(a, f) ==
    (a \div DecScale) * f
    + ((a % DecScale) * (f \div 1000) + ((a % DecScale) * (f % 1000)) \div 1000)
        \div (DecScale \div 1000)

\* --------------------------------------------------------------- set records
Lots == {"Duration", "DistanceAndDuration", "RepsAndWeight"}

Stat(du, di, r, w) == [duration |-> du, distance |-> di, reps |-> r, weight |-> w]

DefaultStatistic == Stat(None, None, None, None)

\* variant of translate_units that converts the distance like a weight
translate_units_one_factor(stat, unit_type) ==
    IF unit_type = "Metric" THEN stat
    ELSE [stat EXCEPT
            !.weight = IF IsSome(@) THEN Some(MulDec(Get(@), LbToKg)) ELSE @,
            !.distance = IF IsSome(@) THEN Some(MulDec(Get(@), LbToKg)) ELSE @]

\* UserWorkoutSetRecord::translate_units
translate_units(stat, unit_type) ==
    IF unit_type = "Metric" THEN stat
    ELSE [stat EXCEPT
            !.weight = IF IsSome(@) THEN Some(MulDec(Get(@), LbToKg)) ELSE @,
            !.distance = IF IsSome(@) THEN Some(MulDec(Get(@), MiToKm)) ELSE @]

\* variant of remove_invalids that keeps the reps of every exercise type
remove_invalids_keeping_reps(stat, lot) ==
    CASE lot = "Duration" ->
           [DefaultStatistic EXCEPT !.duration = stat.duration, !.reps = stat.reps]
      [] lot = "DistanceAndDuration" ->
           [DefaultStatistic EXCEPT !.distance = stat.distance,
                                    !.duration = stat.duration,
                                    !.reps = stat.reps]
      [] lot = "RepsAndWeight" ->
           [DefaultStatistic EXCEPT !.reps = stat.reps, !.weight = stat.weight]

\* UserWorkoutSetRecord::remove_invalids
remove_invalids(stat, lot) ==
    CASE lot = "Duration" ->
           [DefaultStatistic EXCEPT !.duration = stat.duration]
      [] lot = "DistanceAndDuration" ->
           [DefaultStatistic EXCEPT !.distance = stat.distance,
                                    !.duration = stat.duration]
      [] lot = "RepsAndWeight" ->
           [DefaultStatistic EXCEPT !.reps = stat.reps, !.weight = stat.weight]

\* the PR categories of an exercise type, in the order the code lists them
types_of_prs(lot) ==
    CASE lot = "Duration" -> << "Time" >>
      [] lot = "DistanceAndDuration" -> << "Pace", "Time" >>
      [] lot = "RepsAndWeight" -> << "Weight", "OneRm", "Volume", "Reps" >>

\* ------------------------------------------------------------- projections
Rat(n, d) == [n |-> n, d |-> d]

\* Brzycki estimate weight * 36 / (37 - reps); a value <= 0 or a division
\* by zero gives None
calculate_one_rm(stat) ==
    IF IsSome(stat.weight) /\ IsSome(stat.reps)
    THEN LET n == Get(stat.weight) * OneRmNum
             d == OneRmDen - Get(stat.reps)
         IN  IF d > 0 /\ n > 0 THEN Some(Rat(n, d))
             ELSE IF d < 0 /\ n < 0 THEN Some(Rat(-n, -d))
             ELSE None
    ELSE None

calculate_volume(stat) ==
    IF IsSome(stat.weight) /\ IsSome(stat.reps)
    THEN Some(Rat(Get(stat.weight) * Get(stat.reps), 1))
    ELSE None

calculate_pace(stat) ==
    IF IsSome(stat.duration) /\ IsSome(stat.distance) /\ Get(stat.distance) # 0
    THEN Some(Rat(Get(stat.duration), Get(stat.distance)))
    ELSE None

\* WorkoutSetRecord::get_personal_best
get_personal_best(set, pb_type) ==
    CASE pb_type = "Weight" ->
           IF IsSome(set.statistic.weight)
           THEN Some(Rat(Get(set.statistic.weight), 1)) ELSE None
      [] pb_type = "Time" ->
           IF IsSome(set.statistic.duration)
           THEN Some(Rat(Get(set.statistic.duration), 1)) ELSE None
      [] pb_type = "Reps" ->
           IF IsSome(set.statistic.reps)
           THEN Some(Rat(Get(set.statistic.reps), 1)) ELSE None
      [] pb_type = "OneRm" -> calculate_one_rm(set.statistic)
      [] pb_type = "Volume" -> calculate_volume(set.statistic)
      [] pb_type = "Pace" -> calculate_pace(set.statistic)

\* a < b for rationals with positive denominators, by cross multiplication
\* of the fractions reduced by the common factors of the two sides
RatLess(a, b) ==
    LET gn == Gcd(IF a.n < 0 THEN -a.n ELSE a.n, IF b.n < 0 THEN -b.n ELSE b.n)
        gd == Gcd(a.d, b.d)
        g1 == IF gn = 0 THEN 1 ELSE gn
    IN  (a.n \div g1) * (b.d \div gd) < (b.n \div g1) * (a.d \div gd)

\* Ord for Option<Decimal>: None is below every Some
OptionCmp(p1, p2) ==
    CASE IsSome(p1) /\ IsSome(p2) ->
           IF RatLess(Get(p1), Get(p2)) THEN "Less"
           ELSE IF RatLess(Get(p2), Get(p1)) THEN "Greater" ELSE "Equal"
      [] IsSome(p1) /\ ~IsSome(p2) -> "Greater"
      [] ~IsSome(p1) /\ IsSome(p2) -> "Less"
      [] OTHER -> "Equal"

\* the `>` of line 212
OptionGt(p1, p2) == OptionCmp(p1, p2) = "Greater"

\* ------------------------------------------------------------ the catalog
\* the exercise table: id -> lot
ExerciseTable == (1 :> "RepsAndWeight") @@ (2 :> "DistanceAndDuration")

\* ------------------------------------------------------------- the totals
DefaultTotal ==
    [personal_bests_achieved |-> 0, weight |-> 0, reps |-> 0,
     distance |-> 0, duration |-> 0]

\* impl AddAssign / Sum for WorkoutTotalMeasurement
AddTotal(a, b) ==
    [personal_bests_achieved |-> a.personal_bests_achieved + b.personal_bests_achieved,
     weight |-> a.weight + b.weight,
     reps |-> a.reps + b.reps,
     distance |-> a.distance + b.distance,
     duration |-> a.duration + b.duration]

RECURSIVE SumTotals(_)
SumTotals(ts) == IF ts = << >> THEN DefaultTotal
                 ELSE AddTotal(Head(ts), SumTotals(Tail(ts)))

\* variant of AccumulateSets that adds the weight of a set once, whatever
\* its reps
RECURSIVE AccumulateSets_weight_once(_, _, _, _, _)
AccumulateSets_weight_once(raw, k, lot, unit_system, acc) ==
    IF k > Len(raw) THEN acc
    ELSE LET st == remove_invalids(translate_units(raw[k].statistic, unit_system), lot)
             t0 == acc.total
             t1 == IF IsSome(st.reps)
                   THEN [t0 EXCEPT !.reps = @ + Get(st.reps),
                                   !.weight = IF IsSome(st.weight)
                                              THEN @ + Get(st.weight) ELSE @]
                   ELSE t0
             t2 == IF IsSome(st.duration)
                   THEN [t1 EXCEPT !.duration = @ + Get(st.duration)] ELSE t1
             t3 == IF IsSome(st.distance)
                   THEN [t2 EXCEPT !.distance = @ + Get(st.distance)] ELSE t2
             rec == [statistic |-> st, lot |-> raw[k].lot, personal_bests |-> << >>]
         IN  AccumulateSets_weight_once(raw, k + 1, lot, unit_system,
                                        [sets |-> Append(acc.sets, rec), total |-> t3])

\* lines 166-186: normalise, sanitise and accumulate the sets of one exercise
RECURSIVE AccumulateSets(_, _, _, _, _)
AccumulateSets(raw, k, lot, unit_system, acc) ==
    IF k > Len(raw) THEN acc
    ELSE LET st == remove_invalids(translate_units(raw[k].statistic, unit_system), lot)
             t0 == acc.total
             t1 == IF IsSome(st.reps)
                   THEN [t0 EXCEPT !.reps = @ + Get(st.reps),
                                   !.weight = IF IsSome(st.weight)
                                              THEN @ + Get(st.weight) * Get(st.reps)
                                              ELSE @]
                   ELSE t0
             t2 == IF IsSome(st.duration)
                   THEN [t1 EXCEPT !.duration = @ + Get(st.duration)] ELSE t1
             t3 == IF IsSome(st.distance)
                   THEN [t2 EXCEPT !.distance = @ + Get(st.distance)] ELSE t2
             rec == [statistic |-> st, lot |-> raw[k].lot, personal_bests |-> << >>]
         IN  AccumulateSets(raw, k + 1, lot, unit_system,
                            [sets |-> Append(acc.sets, rec), total |-> t3])

\* Iterator::max_by keeps the last of several maximal elements
RECURSIVE MaxBy(_, _, _, _)
MaxBy(records, pb_type, k, best) ==
    IF k > Len(records) THEN best
    ELSE MaxBy(records, pb_type, k + 1,
               IF OptionCmp(get_personal_best(records[best], pb_type),
                            get_personal_best(records[k], pb_type)) = "Greater"
               THEN best ELSE k)

\* get_index_of_highest_pb: the position of the first record equal to the
\* maximal one (1-based here)
get_index_of_highest_pb(records, pb_type) ==
    LET m == MaxBy(records, pb_type, 2, 1)
    IN  CHOOSE i \in 1..Len(records) :
            /\ records[i] = records[m]
            /\ \A j \in 1..(i - 1) : records[j] # records[m]

\* variant of possible_record that never finds a stored record
possible_record_never_found(personal_bests, best_type) == None

\* lines 206-209: the first stored record of the category, if any
possible_record(personal_bests, best_type) ==
    LET hits == {i \in 1..Len(personal_bests) : personal_bests[i].lot = best_type}
    IN  IF hits = {} THEN None
        ELSE LET i == CHOOSE x \in hits : \A y \in hits : x <= y
             IN  IF personal_bests[i].sets = << >> THEN None
                 ELSE Some(personal_bests[i].sets[1])

\* variant of is_new_record that tags the candidate whatever is stored
is_new_record_always(set, stored, best_type) == TRUE

\* variant of is_new_record with >= in place of >
is_new_record_or_equal(set, stored, best_type) ==
    IF IsSome(stored)
    THEN OptionCmp(get_personal_best(set, best_type),
                   get_personal_best(Get(stored).data, best_type)) # "Less"
    ELSE TRUE

\* lines 211-219: the decision to tag the candidate set
is_new_record(set, stored, best_type) ==
    IF IsSome(stored)
    THEN OptionGt(get_personal_best(set, best_type),
                  get_personal_best(Get(stored).data, best_type))
    ELSE TRUE

\* lines 204-220: tag the best set of the workout per category
RECURSIVE TagRecords(_, _, _, _)
TagRecords(types, k, personal_bests, acc) ==
    IF k > Len(types) THEN acc
    ELSE LET best_type == types[k]
             set_idx == get_index_of_highest_pb(acc.sets, best_type)
             stored == possible_record(personal_bests, best_type)
         IN  IF is_new_record(acc.sets[set_idx], stored, best_type)
             THEN TagRecords(types, k + 1, personal_bests,
                    [sets |-> [acc.sets EXCEPT ![set_idx].personal_bests =
                                                   Append(@, best_type)],
                     total |-> [acc.total EXCEPT !.personal_bests_achieved = @ + 1]])
             ELSE TagRecords(types, k + 1, personal_bests, acc)

\* LengthVec::push_front: prepend, then truncate to the capacity
push_front(vec, max_length, item) ==
    SubSeq(<< item >> \o vec, 1, Min(max_length, Len(vec) + 1))

\* lines 229-241: put one record into the table of its category
InsertBest(personal_bests, best, record, save_history) ==
    LET hits == {i \in 1..Len(personal_bests) : personal_bests[i].lot = best}
    IN  IF hits # {}
        THEN LET i == CHOOSE x \in hits : \A y \in hits : x <= y
             IN  [personal_bests EXCEPT
                    ![i].sets = push_front(@, save_history, record)]
        ELSE Append(personal_bests, [lot |-> best, sets |-> << record >>])

\* lines 223-242: the categories of one set
RECURSIVE InsertBestsOfSet(_, _, _, _, _, _)
InsertBestsOfSet(personal_bests, set, set_idx, k, id, save_history) ==
    IF k > Len(set.personal_bests) THEN personal_bests
    ELSE InsertBestsOfSet(
            InsertBest(personal_bests, set.personal_bests[k],
                       [workout_id |-> id, set_idx |-> set_idx, data |-> set],
                       save_history),
            set, set_idx, k + 1, id, save_history)

\* lines 222-243: every set of the exercise, in order
RECURSIVE InsertBests(_, _, _, _, _)
InsertBests(personal_bests, sets, k, id, save_history) ==
    IF k > Len(sets) THEN personal_bests
    ELSE InsertBests(
            InsertBestsOfSet(personal_bests, sets[k], k - 1, 1, id, save_history),
            sets, k + 1, id, save_history)

\* ---------------------------------------------------------------- inputs
RawSet(stat) == [statistic |-> stat, lot |-> "Normal"]

\* raw sets: reps and weight rise from SetA to SetB, SetC has more reps and
\* no weight, SetD is a distance/duration set that also carries reps
SetA == RawSet(Stat(None, None, Some(1), Some(Dec(1))))
SetB == RawSet(Stat(None, None, Some(2), Some(Dec(2))))
SetC == RawSet(Stat(None, None, Some(3), None))
SetD == RawSet(Stat(Some(Dec(2)), Some(Dec(1)), Some(1), None))

ExerciseInput(id, sets) == [exercise_id |-> id, sets |-> sets]

\* UserExerciseInput values: three single-set exercises, one with two sets
\* of which one is empty after sanitising, and one without sets
ExercisePool ==
    { ExerciseInput(1, << SetA >>),
      ExerciseInput(1, << SetB >>),
      ExerciseInput(1, << SetC >>),
      ExerciseInput(2, << SetA, SetD >>),
      ExerciseInput(1, << >>) }

RECURSIVE SeqsUpTo(_, _)
SeqsUpTo(S, n) ==
    IF n = 0 THEN { << >> }
    ELSE LET shorter == SeqsUpTo(S, n - 1)
         IN  shorter \cup { Append(q, x) : q \in shorter, x \in S }

\* UserWorkoutInput: the list of exercises (names, times and assets are
\* copied through unchanged and left out)
WorkoutInputs == SeqsUpTo(ExercisePool, MaxExercises)

\* the ids the caller generates for the successive commits
WorkoutIdSeq == << "w1", "w2" >>

\* ------------------------------------------------------------------ state
VARIABLES
    assoc,          \* user_to_entity rows of the user: exercise id -> row
    workouts,       \* workout rows: workout id -> row
    save_history,   \* preferences.save_history
    unit_system,    \* preferences.unit_system
    calls,          \* number of commits requested so far (the next id)
    lastCall,       \* the last request and its result
    reports,        \* import_report rows, by id (1..Len)
    now,            \* Utc::now(), in hours
    running,        \* ids of the import runs between start and finish
    sweep_pc,       \* invalidate_import_jobs: "idle" or "loop"
    all_jobs,       \* invalidate_import_jobs: the fetched jobs still to visit
    sweepStart,     \* the report table as the running sweep fetched it
    sweepAlone,     \* no other operation and no tick since the sweep fetched
    settled,        \* Some(table) an undisturbed sweep left, until something happens
    media_pc,       \* import_media: "idle", "adapter", "items", "done", "aborted"
    import,         \* import_media: the ImportResult it works on
    adapter_result, \* what the source adapter returned
    media_idx,      \* import_media: position in import.media of the next item
    review_scale,   \* preferences.general.review_scale
    service_log,    \* the calls made to the media service, in order
    exercises_pc,   \* import_exercises: "idle", "adapter", "workouts", "done", "aborted"
    import_workouts,\* import_exercises: import.workouts
    workout_idx,    \* import_exercises: position of the next workout
    exercises_details, \* import_exercises: the details built before the loop
    commit_log,     \* the create_user_workout calls and their results, in order
    race_pc,        \* concurrent commits: where each one is
    race_local,     \* concurrent commits: the input and the rows each one holds
    race_last,      \* concurrent commits: who wrote the association last
    evaluated       \* the last call of a function without side effects

workoutVars == << assoc, workouts, save_history, unit_system, calls, lastCall >>
jobVars == << reports, now, running, sweep_pc, all_jobs, sweepStart, sweepAlone,
              settled >>
mediaVars == << media_pc, import, adapter_result, media_idx, review_scale,
                service_log >>
exerciseVars == << exercises_pc, import_workouts, workout_idx, exercises_details,
                   commit_log >>
raceVars == << race_pc, race_local, race_last >>
pureVars == << evaluated >>
vars == << workoutVars, jobVars, mediaVars, exerciseVars, raceVars, pureVars >>

NoCall == [op |-> "none", id |-> "", input |-> << >>, result |-> "none"]

\* variant of LoadOrCreate that keeps only the newest history entry
LoadOrCreate_history_replaced(tbl, exercise_id, history_item) ==
    IF exercise_id \notin DOMAIN tbl
    THEN [num_times_interacted |-> DefaultNumTimesInteracted,
          history |-> << history_item >>,
          lifetime_stats |-> DefaultTotal,
          personal_bests |-> << >>]
    ELSE [tbl[exercise_id] EXCEPT
            !.num_times_interacted = @ + 1,
            !.history = << history_item >>]

\* variant of LoadOrCreate that puts the new history entry at the back
LoadOrCreate_history_appended(tbl, exercise_id, history_item) ==
    IF exercise_id \notin DOMAIN tbl
    THEN [num_times_interacted |-> DefaultNumTimesInteracted,
          history |-> << history_item >>,
          lifetime_stats |-> DefaultTotal,
          personal_bests |-> << >>]
    ELSE [tbl[exercise_id] EXCEPT
            !.num_times_interacted = @ + 1,
            !.history = @ \o << history_item >>]

\* lines 139-165: load or create the association of one exercise
LoadOrCreate(tbl, exercise_id, history_item) ==
    IF exercise_id \notin DOMAIN tbl
    THEN [num_times_interacted |-> DefaultNumTimesInteracted,
          history |-> << history_item >>,
          lifetime_stats |-> DefaultTotal,
          personal_bests |-> << >>]
    ELSE [tbl[exercise_id] EXCEPT
            !.num_times_interacted = @ + 1,
            !.history = << history_item >> \o @]

\* lines 126-264: one exercise that has sets and a definition
ProcessExercise(tbl, ex, idx, id, sh, us) ==
    LET lot == ExerciseTable[ex.exercise_id]
        association == LoadOrCreate(tbl, ex.exercise_id,
                                    [workout_id |-> id, idx |-> idx])
        acc == AccumulateSets(ex.sets, 1, lot, us,
                              [sets |-> << >>, total |-> DefaultTotal])
        tagged == TagRecords(types_of_prs(lot), 1, association.personal_bests, acc)
        personal_bests == InsertBests(association.personal_bests, tagged.sets, 1, id, sh)
        row == [association EXCEPT
                  !.lifetime_stats = AddTotal(@, tagged.total),
                  !.personal_bests = personal_bests]
    IN  [row |-> row,
         processed |-> [id |-> ex.exercise_id, lot |-> lot,
                        sets |-> tagged.sets, total |-> tagged.total]]

\* variant of CommitLoop in which an exercise without a definition is fatal
RECURSIVE CommitLoop_unknown_fatal(_, _, _, _, _, _)
CommitLoop_unknown_fatal(exs, k, st, id, sh, us) ==
    IF k > Len(exs) THEN st
    ELSE IF Len(exs[k].sets) = 0
    THEN [st EXCEPT !.err = "This exercise has no associated sets"]
    ELSE IF exs[k].exercise_id \notin DOMAIN ExerciseTable
    THEN [st EXCEPT !.err = "Exercise not found"]
    ELSE LET r == ProcessExercise(st.assoc, exs[k], k - 1, id, sh, us)
         IN  CommitLoop_unknown_fatal(exs, k + 1,
                [st EXCEPT !.assoc = (exs[k].exercise_id :> r.row) @@ @,
                           !.exercises = Append(@, r.processed)],
                id, sh, us)

\* lines 115-265: the loop over the exercises; st = [assoc, exercises, err]
RECURSIVE CommitLoop(_, _, _, _, _, _)
CommitLoop(exs, k, st, id, sh, us) ==
    IF k > Len(exs) THEN st
    ELSE IF Len(exs[k].sets) = 0
    THEN [st EXCEPT !.err = "This exercise has no associated sets"]
    ELSE IF exs[k].exercise_id \notin DOMAIN ExerciseTable
    THEN CommitLoop(exs, k + 1, st, id, sh, us)
    ELSE LET r == ProcessExercise(st.assoc, exs[k], k - 1, id, sh, us)
         IN  CommitLoop(exs, k + 1,
                [st EXCEPT !.assoc = (exs[k].exercise_id :> r.row) @@ @,
                           !.exercises = Append(@, r.processed)],
                id, sh, us)

\* get_best_set_index: max_by_key keeps the last maximal element
RECURSIVE BestSetFrom(_, _, _)
BestSetFrom(records, k, best) ==
    LET key(r) == (IF IsSome(r.statistic.duration) THEN Get(r.statistic.duration) ELSE 0)
                + (IF IsSome(r.statistic.distance) THEN Get(r.statistic.distance) ELSE 0)
                + (IF IsSome(r.statistic.reps) THEN Dec(Get(r.statistic.reps)) ELSE 0)
                + (IF IsSome(r.statistic.weight) THEN Get(r.statistic.weight) ELSE 0)
    IN  IF k > Len(records) THEN best
        ELSE BestSetFrom(records, k + 1,
                         IF key(records[best]) > key(records[k]) THEN best ELSE k)

get_best_set_index(records) ==
    IF records = << >> THEN None ELSE Some(BestSetFrom(records, 2, 1) - 1)

\* lines 266-291: the workout row
WorkoutModel(id, exercises) ==
    [id |-> id,
     summary |->
        [total |-> SumTotals([i \in 1..Len(exercises) |-> exercises[i].total]),
         exercises |-> [i \in 1..Len(exercises) |->
                          [num_sets |-> Len(exercises[i].sets),
                           lot |-> exercises[i].lot,
                           best_set |-> exercises[i].sets[
                               Get(get_best_set_index(exercises[i].sets)) + 1]]]],
     information |-> [exercises |-> exercises]]

\* lines 115-294: the exercises, then the workout row
commit_exercises(input, tbl, rows, id, sh, us) ==
    LET st == CommitLoop(input, 1,
                         [assoc |-> tbl, exercises |-> << >>, err |-> "none"],
                         id, sh, us)
    IN  IF st.err # "none"
        THEN [assoc |-> st.assoc, workouts |-> rows, result |-> st.err]
        ELSE [assoc |-> st.assoc,
              workouts |-> (id :> WorkoutModel(id, st.exercises)) @@ rows,
              result |-> "Ok"]

\* variant of calculate_and_commit without the check of line 112
calculate_and_commit_unchecked(input, tbl, rows, id, sh, us) ==
    commit_exercises(input, tbl, rows, id, sh, us)

\* UserWorkoutInput::calculate_and_commit: the store after the call and
\* its result
calculate_and_commit(input, tbl, rows, id, sh, us) ==
    IF Len(input) = 0
    THEN [assoc |-> tbl, workouts |-> rows,
          result |-> "This workout has no associated exercises"]
    ELSE commit_exercises(input, tbl, rows, id, sh, us)

\* ---------------------------------------------------------------- actions
\* no import job exists and no sweep runs
JobsIdle ==
    /\ reports = << >>
    /\ now = 0
    /\ running = {}
    /\ sweep_pc = "idle"
    /\ all_jobs = << >>
    /\ sweepStart = << >>
    /\ sweepAlone = TRUE
    /\ settled = None

\* import_media has not been called
EmptyImport == [media |-> << >>, failed_items |-> << >>, collections |-> << >>]

MediaIdle ==
    /\ media_pc = "idle"
    /\ import = EmptyImport
    /\ adapter_result = EmptyImport
    /\ media_idx = 1
    /\ review_scale = "OutOfHundred"
    /\ service_log = << >>

\* import_exercises has not been called
ExercisesIdle ==
    /\ exercises_pc = "idle"
    /\ import_workouts = << >>
    /\ workout_idx = 1
    /\ exercises_details = None
    /\ commit_log = << >>

\* no function has been evaluated
NotEvaluated == [op |-> "none"]
PureIdle == evaluated = NotEvaluated

\* no concurrent commit is under way
RaceIdle ==
    /\ race_pc = << >>
    /\ race_local = << >>
    /\ race_last = None

Init ==
    /\ assoc = << >>
    /\ workouts = << >>
    /\ save_history \in 0..MaxSaveHistory
    /\ unit_system \in {"Metric", "Imperial"}
    /\ calls = 0
    /\ lastCall = NoCall
    /\ JobsIdle
    /\ MediaIdle
    /\ ExercisesIdle
    /\ RaceIdle
    /\ PureIdle

\* one call of calculate_and_commit with a fresh workout id
Commit(input) ==
    /\ calls < Len(WorkoutIdSeq)
    /\ \E r \in { calculate_and_commit(input, assoc, workouts, WorkoutIdSeq[calls + 1],
                                        save_history, unit_system) } :
           /\ assoc' = r.assoc
           /\ workouts' = r.workouts
           /\ lastCall' = [op |-> "commit", id |-> WorkoutIdSeq[calls + 1],
                           input |-> input, result |-> r.result]
    /\ calls' = calls + 1
    /\ UNCHANGED << save_history, unit_system, jobVars, mediaVars, raceVars, pureVars,
                    exerciseVars >>

Next == \E input \in WorkoutInputs : Commit(input)

Spec == Init /\ [][Next]_vars

\* ===================================================== workout commit claims
\* the step is a call of calculate_and_commit
IsCommitStep == calls' = calls + 1 /\ lastCall'.op = "commit"

HasEmptyExercise(input) == \E k \in 1..Len(input) : Len(input[k].sets) = 0

StoreUnchanged == assoc' = assoc /\ workouts' = workouts

\* C1: a commit whose input holds an exercise with zero sets, at whatever
\* position, fails and writes nothing: no association row is created or
\* updated and no workout row is inserted.
C1_EmptyExerciseWritesNothing ==
    [][(IsCommitStep /\ HasEmptyExercise(lastCall'.input))
          => (lastCall'.result # "Ok" /\ StoreUnchanged)]_vars

\* C2: a commit with zero exercises fails with the validation error and
\* leaves the workout rows and the association rows unchanged.
C2_NoExercisesWritesNothing ==
    [][(IsCommitStep /\ lastCall'.input = << >>)
          => (/\ lastCall'.result = "This workout has no associated exercises"
              /\ StoreUnchanged)]_vars

\* an empty workout was refused while the store already held rows
C2_Witness ==
    /\ lastCall.op = "commit"
    /\ lastCall.input = << >>
    /\ lastCall.result = "This workout has no associated exercises"
    /\ DOMAIN assoc # {}
    /\ DOMAIN workouts # {}

\* C3: every stored list of best-set records is at most save_history long.
C3_BestSetsBounded ==
    \A e \in DOMAIN assoc :
        \A i \in 1..Len(assoc[e].personal_bests) :
            Len(assoc[e].personal_bests[i].sets) <= save_history

ReachedPrefix(input) ==
    LET empties == {k \in 1..Len(input) : Len(input[k].sets) = 0}
    IN  IF empties = {} THEN Len(input)
        ELSE (CHOOSE k \in empties : \A j \in empties : k <= j) - 1

\* the 0-based positions at which a commit processed exercise e
ProcessedPositions(input, e) ==
    {k - 1 : k \in {j \in 1..ReachedPrefix(input) :
                      input[j].exercise_id = e /\ e \in DOMAIN ExerciseTable}}

TaggedWith(pex, c) ==
    {i \in 1..Len(pex.sets) :
        \E t \in 1..Len(pex.sets[i].personal_bests) : pex.sets[i].personal_bests[t] = c}

\* the stored personal bests of exercise e in the current store
StoredBests(e) == IF e \in DOMAIN assoc THEN assoc[e].personal_bests ELSE << >>

\* C5: in a commit, for an exercise the workout holds once and for every
\* category of its type, at most one set is tagged, it has the highest
\* projection of the workout's sets, and it is tagged only if no first
\* stored record exists or its projection is strictly greater than that
\* record's: never on an equal projection, never with an absent projection
\* against a present one.
C5_TaggedOnlyIfStrictlyBetter ==
    [][(IsCommitStep /\ lastCall'.result = "Ok") =>
         LET exs == workouts'[lastCall'.id].information.exercises
         IN  \A j \in 1..Len(exs) :
               (\A j2 \in 1..Len(exs) : exs[j2].id = exs[j].id => j2 = j) =>
                 \A t \in 1..Len(types_of_prs(exs[j].lot)) :
                    LET c == types_of_prs(exs[j].lot)[t]
                        tagged == TaggedWith(exs[j], c)
                        stored == possible_record(StoredBests(exs[j].id), c)
                    IN  /\ Cardinality(tagged) <= 1
                        /\ \A i \in tagged :
                             /\ \A i2 \in 1..Len(exs[j].sets) :
                                   OptionCmp(get_personal_best(exs[j].sets[i], c),
                                             get_personal_best(exs[j].sets[i2], c)) # "Less"
                             /\ \/ ~IsSome(stored)
                                \/ OptionCmp(get_personal_best(exs[j].sets[i], c),
                                             get_personal_best(Get(stored).data, c))
                                      = "Greater"]_vars

\* a set without a weight was committed against a stored Weight record with
\* a weight: it took the Reps record and not the Weight record
C5_Witness ==
    /\ lastCall.result = "Ok"
    /\ lastCall.id = "w2"
    /\ 1 \in DOMAIN assoc
    /\ LET exs == workouts["w2"].information.exercises
           w == possible_record(assoc[1].personal_bests, "Weight")
       IN  /\ Len(exs) = 1
           /\ exs[1].id = 1
           /\ ~IsSome(exs[1].sets[1].statistic.weight)
           /\ TaggedWith(exs[1], "Weight") = {}
           /\ TaggedWith(exs[1], "Reps") = {1}
           /\ IsSome(w)
           /\ IsSome(Get(w).data.statistic.weight)
           /\ Get(w).workout_id = "w1"

\* the workout row holds exactly one exercise, with exactly one set
SingleSetWorkout(id) ==
    /\ id \in DOMAIN workouts
    /\ Len(workouts[id].information.exercises) = 1
    /\ Len(workouts[id].information.exercises[1].sets) = 1

AllFour == { "Weight", "OneRm", "Volume", "Reps" }

\* the personal-best table holds, for each of the four categories, exactly
\* the one record of set 0 of workout id
OnlyFirstWorkoutRecords(pbs, id, set) ==
    /\ Len(pbs) = 4
    /\ {pbs[i].lot : i \in 1..Len(pbs)} = AllFour
    /\ \A i \in 1..Len(pbs) :
          pbs[i].sets = << [workout_id |-> id, set_idx |-> 0, data |-> set] >>

\* C6: for a RepsAndWeight exercise without an association, the commit of a
\* workout with a single set achieves Weight, OneRm, Volume and Reps and
\* counts 4 personal bests; a second workout with an identical single set
\* achieves none, leaves every list unchanged and counts 0.
C6_FirstSetAllFourThenTieNone ==
    (SingleSetWorkout("w1")
       /\ workouts["w1"].information.exercises[1].lot = "RepsAndWeight") =>
      LET ex1 == workouts["w1"].information.exercises[1]
          e == ex1.id
      IN  /\ {ex1.sets[1].personal_bests[t] :
                  t \in 1..Len(ex1.sets[1].personal_bests)} = AllFour
          /\ Len(ex1.sets[1].personal_bests) = 4
          /\ ex1.total.personal_bests_achieved = 4
          /\ (calls = 1 =>
                /\ assoc[e].lifetime_stats.personal_bests_achieved = 4
                /\ OnlyFirstWorkoutRecords(assoc[e].personal_bests, "w1", ex1.sets[1]))
          /\ (SingleSetWorkout("w2")
                /\ workouts["w2"].information.exercises[1].id = e
                /\ workouts["w2"].information.exercises[1].sets[1].statistic
                     = ex1.sets[1].statistic) =>
                LET ex2 == workouts["w2"].information.exercises[1]
                IN  /\ ex2.sets[1].personal_bests = << >>
                    /\ ex2.total.personal_bests_achieved = 0
                    /\ assoc[e].lifetime_stats.personal_bests_achieved = 4
                    /\ OnlyFirstWorkoutRecords(assoc[e].personal_bests, "w1",
                                               ex1.sets[1])

\* the second of two identical single-set workouts was committed
C6_Witness ==
    /\ SingleSetWorkout("w1")
    /\ SingleSetWorkout("w2")
    /\ workouts["w1"].information.exercises[1].lot = "RepsAndWeight"
    /\ workouts["w2"].information.exercises[1].id
         = workouts["w1"].information.exercises[1].id
    /\ workouts["w2"].information.exercises[1].sets[1].statistic
         = workouts["w1"].information.exercises[1].sets[1].statistic
    /\ IsSome(workouts["w2"].information.exercises[1].sets[1].statistic.weight)

\* ======================================================= import job records
\* the store holds no workout data; the preferences are fixed
WorkoutIdle ==
    /\ assoc = << >>
    /\ workouts = << >>
    /\ save_history = 0
    /\ unit_system = "Metric"
    /\ calls = 0
    /\ lastCall = NoCall

\* the ImportResultResponse values a finishing run reports
DetailsPool ==
    { [import |-> [total |-> 1],
       failed_items |-> << [step |-> "MediaDetailsFromProvider",
                            identifier |-> "a"] >>] }

\* start_import_job: the inserted row; finished_on, details and success are
\* null, started_on is the insertion time
start_import_job(tbl, t) ==
    Append(tbl, [started_on |-> t, finished_on |-> None, details |-> None,
                 success |-> None])

\* finish_import_job: the update writes the three columns it sets
finish_import_job(tbl, id, t, details) ==
    [tbl EXCEPT ![id].finished_on = Some(t),
                ![id].details = Some(details),
                ![id].success = Some(TRUE)]

\* variant of FindUnresolved without the is_null filter
RECURSIVE FindEveryJob(_, _)
FindEveryJob(tbl, k) ==
    IF k > Len(tbl) THEN << >> ELSE << k >> \o FindEveryJob(tbl, k + 1)

\* lines 233-236: the ids of the rows whose success is null, in id order
RECURSIVE FindUnresolved(_, _)
FindUnresolved(tbl, k) ==
    IF k > Len(tbl) THEN << >>
    ELSE (IF tbl[k].success = None THEN << k >> ELSE << >>)
            \o FindUnresolved(tbl, k + 1)

\* variant of IsStale with >= in place of >
IsStale_or_equal(t, started_on) == t - started_on >= StaleAfterHours

\* line 238
IsStale(t, started_on) == t - started_on > StaleAfterHours

\* variant of invalidate that saves nothing
invalidate_nothing(tbl, id) == tbl

\* lines 239-242: the save writes the success column
invalidate(tbl, id) == [tbl EXCEPT ![id].success = Some(FALSE)]

\* something other than the sweep happened
Disturb == sweepAlone' = FALSE /\ settled' = None

StartImportJob ==
    /\ Len(reports) < MaxJobs
    /\ reports' = start_import_job(reports, now)
    /\ running' = running \cup { Len(reports) + 1 }
    /\ Disturb
    /\ UNCHANGED << now, sweep_pc, all_jobs, sweepStart, workoutVars,
                    exerciseVars, mediaVars, raceVars, pureVars >>

FinishImportJob(id, details) ==
    /\ id \in running
    /\ reports' = finish_import_job(reports, id, now, details)
    /\ running' = running \ { id }
    /\ Disturb
    /\ UNCHANGED << now, sweep_pc, all_jobs, sweepStart, workoutVars,
                    exerciseVars, mediaVars, raceVars, pureVars >>

\* the run returns an error before finish_import_job (the `?` of lines
\* 270, 295-313, 326, 436)
AbortImportJob(id) ==
    /\ id \in running
    /\ running' = running \ { id }
    /\ Disturb
    /\ UNCHANGED << reports, now, sweep_pc, all_jobs, sweepStart, workoutVars,
                    exerciseVars,
                    mediaVars, raceVars, pureVars >>

Tick ==
    /\ now < MaxTicks * TickHours
    /\ now' = now + TickHours
    /\ Disturb
    /\ UNCHANGED << reports, running, sweep_pc, all_jobs, sweepStart, workoutVars,
                    exerciseVars,
                    mediaVars, raceVars, pureVars >>

\* invalidate_import_jobs, lines 233-236: fetch the unresolved jobs
SweepFind ==
    /\ sweep_pc = "idle"
    /\ sweep_pc' = "loop"
    /\ all_jobs' = FindUnresolved(reports, 1)
    /\ sweepStart' = reports
    /\ sweepAlone' = TRUE
    /\ UNCHANGED << reports, now, running, settled, workoutVars, exerciseVars, mediaVars,
                    raceVars, pureVars >>

\* invalidate_import_jobs, lines 237-244: one turn of the loop
SweepJob ==
    /\ sweep_pc = "loop"
    /\ all_jobs # << >>
    /\ reports' = IF IsStale(now, reports[Head(all_jobs)].started_on)
                  THEN invalidate(reports, Head(all_jobs))
                  ELSE reports
    /\ all_jobs' = Tail(all_jobs)
    /\ UNCHANGED << now, running, sweep_pc, sweepStart, sweepAlone, settled,
                    workoutVars, exerciseVars, mediaVars, raceVars, pureVars >>

\* invalidate_import_jobs, line 245: the loop is over
SweepReturn ==
    /\ sweep_pc = "loop"
    /\ all_jobs = << >>
    /\ sweep_pc' = "idle"
    /\ settled' = IF sweepAlone THEN Some(reports) ELSE None
    /\ UNCHANGED << reports, now, running, all_jobs, sweepStart, sweepAlone,
                    workoutVars, exerciseVars, mediaVars, raceVars, pureVars >>

InitJobs == WorkoutIdle /\ JobsIdle /\ MediaIdle /\ ExercisesIdle /\ RaceIdle /\ PureIdle

NextJobs ==
    \/ StartImportJob
    \/ \E id \in running, details \in DetailsPool : FinishImportJob(id, details)
    \/ \E id \in running : AbortImportJob(id)
    \/ Tick
    \/ SweepFind
    \/ SweepJob
    \/ SweepReturn

SpecJobs == InitJobs /\ [][NextJobs]_vars

\* a job started early enough for the bounded clock to take it past the
\* threshold
StartImportJobEarly ==
    /\ now + StaleAfterHours < MaxTicks * TickHours
    /\ StartImportJob

NextJobsLive ==
    \/ StartImportJobEarly
    \/ \E id \in running, details \in DetailsPool : FinishImportJob(id, details)
    \/ \E id \in running : AbortImportJob(id)
    \/ Tick
    \/ SweepFind
    \/ SweepJob
    \/ SweepReturn

\* time advances and the sweep keeps being run, each of its steps completing
SpecJobsLive ==
    /\ InitJobs
    /\ [][NextJobsLive]_vars
    /\ WF_vars(Tick)
    /\ WF_vars(SweepFind)
    /\ WF_vars(SweepJob)
    /\ WF_vars(SweepReturn)

\* ------------------------------------------------------ claims on the sweep
\* what one sweep at time t makes of the table tbl
ExpectedSweep(tbl, t) ==
    [id \in DOMAIN tbl |->
        IF tbl[id].success = None /\ t - tbl[id].started_on > StaleAfterHours
        THEN [tbl[id] EXCEPT !.success = Some(FALSE)]
        ELSE tbl[id]]

\* a sweep has run from its fetch to its return with nothing else in between
SweepRanAlone == sweep_pc = "idle" /\ sweepAlone /\ IsSome(settled)

\* C8: a sweep that runs undisturbed sets success = false on exactly the job
\* records whose success was null and whose start is more than 24 hours back,
\* and leaves every other record (null but at most 24 hours old, or already
\* flagged) as it was.
C8_SweepFlagsExactlyStale ==
    SweepRanAlone => reports = ExpectedSweep(sweepStart, now)

\* an undisturbed sweep flagged a 36-hour-old job and left alone a job that
\* is exactly 24 hours old
C8_Witness ==
    /\ SweepRanAlone
    /\ \E i \in DOMAIN reports :
          /\ sweepStart[i].success = None
          /\ reports[i].success = Some(FALSE)
    /\ \E j \in DOMAIN reports :
          /\ reports[j].success = None
          /\ now - reports[j].started_on = StaleAfterHours

\* C9: once the success flag of a job record is non-null, no later step
\* changes it.
C9_ResolvedOnce ==
    [][\A id \in DOMAIN reports :
          IsSome(reports[id].success) =>
              reports'[id].success = reports[id].success]_vars

\* a step of invalidate_import_jobs
IsSweepStep == sweep_pc' # sweep_pc \/ all_jobs' # all_jobs

\* C10: a sweep that follows a completed sweep with nothing in between leaves
\* the job table as the first sweep left it, and no sweep changes a job
\* record whose flag was already set when that sweep fetched its jobs.
C10_SweepIdempotent ==
    [][IsSweepStep =>
          /\ IsSome(settled) => reports' = Get(settled)
          /\ \A id \in DOMAIN sweepStart :
                (sweep_pc = "loop" /\ IsSome(sweepStart[id].success)) =>
                    reports'[id] = reports[id]]_vars

\* a second sweep has visited all it fetched, after a first sweep that
\* flagged a job and left another unresolved, with nothing in between
C10_Witness ==
    /\ sweep_pc = "loop"
    /\ all_jobs = << >>
    /\ IsSome(settled)
    /\ \E i \in DOMAIN reports : reports[i].success = Some(FALSE)
    /\ \E j \in DOMAIN reports : reports[j].success = None

\* C11: every job record eventually has a non-null success flag.
C11_EveryJobResolved ==
    \A id \in 1..MaxJobs :
        (id \in DOMAIN reports) ~>
            (id \in DOMAIN reports /\ IsSome(reports[id].success))

\* a job whose run ended without finish_import_job was flagged by a sweep
C11_Witness ==
    \E id \in DOMAIN reports :
        /\ id \notin running
        /\ reports[id].finished_on = None
        /\ reports[id].success = Some(FALSE)

\* ============================================================ import_media
\* an ImportOrExportMediaItem: source_id, the kind of its internal
\* identifier, its seen history (progress), its reviews (has a review body,
\* rating) and the names of its collections
MediaItem(source_id, identifier, seen_history, reviews, collections) ==
    [source_id |-> source_id, internal_identifier |-> identifier,
     seen_history |-> seen_history, reviews |-> reviews,
     collections |-> collections]

Seen(progress) == [progress |-> progress]
Review(has_review, rating) == [review |-> has_review, rating |-> rating]

ItemA ==
    MediaItem("a", "NeedsDetails", << Seen(None), Seen(Some(50)) >>,
              << Review(FALSE, None), Review(TRUE, Some(Dec(85))) >>, << "c1" >>)
ItemB ==
    MediaItem("b", "AlreadyFilled", << Seen(None) >>,
              << Review(FALSE, Some(Dec(60))) >>, << >>)
ItemC == MediaItem("c", "NeedsDetails", << >>, << >>, << "c1", "c2" >>)
MediaPool == { ItemA, ItemB, ItemC }

\* the sequences of distinct items of the pool, up to MaxMedia long
MediaBatches ==
    { b \in SeqsUpTo(MediaPool, MaxMedia) :
        \A i, j \in 1..Len(b) : i # j => b[i] # b[j] }

\* what a source adapter can return
AdapterResults ==
    { [media |-> b, failed_items |-> f, collections |-> c] :
        b \in MediaBatches,
        f \in { << >>, << [step |-> "ItemDetailsFromSource", identifier |-> "z"] >> },
        c \in { << >>, << "c0" >> } }

\* lines 318-320: the sort key
Richness(m) == Len(m.seen_history) + Len(m.reviews) + Len(m.collections)

\* variant of SortedByRichness that keeps the adapter's order
SortedByRichness_unsorted(media) == { media }

\* lines 315-322: the orders an unstable sort by the key, reversed, can give
SortedByRichness(media) ==
    { [k \in 1..Len(media) |-> media[p[k]]] :
        p \in { q \in [1..Len(media) -> 1..Len(media)] :
                  /\ \A i, j \in 1..Len(media) : i # j => q[i] # q[j]
                  /\ \A k \in 1..(Len(media) - 1) :
                        Richness(media[q[k]]) >= Richness(media[q[k + 1]]) } }

\* one call of the media service
Call(call, id, arg, ok) == [call |-> call, id |-> id, arg |-> arg, ok |-> ok]

FailedItem(step, identifier) == [step |-> step, identifier |-> identifier]

\* the sequences of booleans of length n: the outcomes of n service calls
Outcomes(n) == [1..n -> BOOLEAN]

\* lines 323-327: the loop over import.collections, stopped by the first error
RECURSIVE CreateCollections(_, _, _)
CreateCollections(collections, k, ok) ==
    IF k > Len(collections) THEN [log |-> << >>, abort |-> FALSE]
    ELSE LET c == Call("create_or_update_collection", "", << collections[k] >>, ok[k])
         IN  IF ~ok[k] THEN [log |-> << c >>, abort |-> TRUE]
             ELSE LET rest == CreateCollections(collections, k + 1, ok)
                  IN  [log |-> << c >> \o rest.log, abort |-> rest.abort]

\* lines 357-387
RECURSIVE SeenLoop(_, _, _)
SeenLoop(item, k, ok) ==
    IF k > Len(item.seen_history) THEN [log |-> << >>, failed |-> << >>]
    ELSE LET seen == item.seen_history[k]
             progress == IF IsSome(seen.progress) THEN seen.progress
                         ELSE Some(FullProgress)
             rest == SeenLoop(item, k + 1, ok)
         IN  [log |-> << Call("progress_update", item.source_id, progress, ok[k]) >>
                        \o rest.log,
              failed |-> (IF ok[k] THEN << >>
                          ELSE << FailedItem("SeenHistoryConversion", item.source_id) >>)
                         \o rest.failed]

\* lines 393-396
ReviewRating(rating, scale) ==
    IF scale = "OutOfFive" /\ IsSome(rating)
    THEN Some(Get(rating) \div OutOfFiveDivisor)
    ELSE rating

\* lines 388-426
RECURSIVE ReviewLoop(_, _, _, _)
ReviewLoop(item, k, ok, scale) ==
    IF k > Len(item.reviews) THEN [log |-> << >>, failed |-> << >>]
    ELSE LET review == item.reviews[k]
             rest == ReviewLoop(item, k + 1, ok, scale)
         IN  IF ~review.review /\ review.rating = None THEN rest
             ELSE [log |-> << Call("post_review", item.source_id,
                                   ReviewRating(review.rating, scale), ok[k]) >>
                            \o rest.log,
                   failed |-> (IF ok[k] THEN << >>
                               ELSE << FailedItem("ReviewConversion", item.source_id) >>)
                              \o rest.failed]

\* lines 427-448: an error of create_or_update_collection ends the run, one
\* of add_entity_to_collection is dropped
RECURSIVE CollectionLoop(_, _, _, _)
CollectionLoop(item, k, create_ok, add_ok) ==
    IF k > Len(item.collections) THEN [log |-> << >>, abort |-> FALSE]
    ELSE LET create == Call("create_or_update_collection", item.source_id,
                            << item.collections[k] >>, create_ok[k])
             add == Call("add_entity_to_collection", item.source_id,
                         << item.collections[k] >>, add_ok[k])
         IN  IF ~create_ok[k] THEN [log |-> << create >>, abort |-> TRUE]
             ELSE LET rest == CollectionLoop(item, k + 1, create_ok, add_ok)
                  IN  [log |-> << create, add >> \o rest.log, abort |-> rest.abort]

\* lines 333-343
CommitCall(item, ok) ==
    Call(IF item.internal_identifier = "NeedsDetails" THEN "commit_media"
         ELSE "commit_media_internal", item.source_id, << >>, ok)

\* variant of SubSteps that reports the review failures in front of the
\* seen-history failures
SubSteps_reviews_reported_first(item, o, scale) ==
    LET seen == SeenLoop(item, 1, o.seen)
        reviews == ReviewLoop(item, 1, o.reviews, scale)
        cols == CollectionLoop(item, 1, o.create, o.add)
    IN  [log |-> seen.log \o reviews.log \o cols.log,
         failed |-> reviews.failed \o seen.failed,
         abort |-> cols.abort]

\* lines 357-448: the sub-steps of an item whose metadata was committed
SubSteps(item, o, scale) ==
    LET seen == SeenLoop(item, 1, o.seen)
        reviews == ReviewLoop(item, 1, o.reviews, scale)
        cols == CollectionLoop(item, 1, o.create, o.add)
    IN  [log |-> seen.log \o reviews.log \o cols.log,
         failed |-> seen.failed \o reviews.failed,
         abort |-> cols.abort]

\* variant of import_item that goes on to the sub-steps after a failed commit
import_item_no_continue(item, o, scale) ==
    LET sub == SubSteps(item, o, scale)
    IN  [log |-> << CommitCall(item, o.commit) >> \o sub.log,
         failed |-> (IF o.commit THEN << >>
                     ELSE << FailedItem("MediaDetailsFromProvider", item.source_id) >>)
                    \o sub.failed,
         abort |-> sub.abort]

\* lines 328-458: one turn of the loop over import.media
import_item(item, o, scale) ==
    IF ~o.commit
    THEN [log |-> << CommitCall(item, FALSE) >>,
          failed |-> << FailedItem("MediaDetailsFromProvider", item.source_id) >>,
          abort |-> FALSE]
    ELSE LET sub == SubSteps(item, o, scale)
         IN  [log |-> << CommitCall(item, TRUE) >> \o sub.log,
              failed |-> sub.failed,
              abort |-> sub.abort]

\* the outcomes the service calls of one item can have
ItemOutcomes(item) ==
    [commit : BOOLEAN,
     seen : Outcomes(Len(item.seen_history)),
     reviews : Outcomes(Len(item.reviews)),
     create : Outcomes(Len(item.collections)),
     add : Outcomes(Len(item.collections))]

\* the outcomes for the item the loop is at
NextItemOutcomes ==
    IF media_idx \in 1..Len(import.media)
    THEN ItemOutcomes(import.media[media_idx])
    ELSE {}

\* the id of the job record of the import_media run
MediaJob == 1

\* line 292
MediaStart ==
    /\ media_pc = "idle"
    /\ reports = << >>
    /\ reports' = start_import_job(reports, now)
    /\ running' = running \cup { MediaJob }
    /\ media_pc' = "adapter"
    /\ Disturb
    /\ UNCHANGED << now, sweep_pc, all_jobs, sweepStart, import, adapter_result,
                    media_idx, review_scale, service_log, workoutVars, exerciseVars,
                    raceVars, pureVars >>

\* lines 293-310: the adapter returns an error
MediaAdapterFails ==
    /\ media_pc = "adapter"
    /\ media_pc' = "aborted"
    /\ running' = running \ { MediaJob }
    /\ UNCHANGED << reports, now, sweep_pc, all_jobs, sweepStart, sweepAlone,
                    settled, import, adapter_result, media_idx, review_scale,
                    service_log, workoutVars, exerciseVars, raceVars, pureVars >>

\* lines 311-314: the preferences cannot be read
MediaPreferencesFail(result) ==
    /\ media_pc = "adapter"
    /\ media_pc' = "aborted"
    /\ running' = running \ { MediaJob }
    /\ adapter_result' = result
    /\ import' = result
    /\ UNCHANGED << reports, now, sweep_pc, all_jobs, sweepStart, sweepAlone,
                    settled, media_idx, review_scale, service_log, workoutVars,
                    exerciseVars, raceVars, pureVars >>

\* lines 293-327: the adapter's result, the preferences, the sort and the
\* loop over import.collections
MediaPrepare(result, scale, ok) ==
    /\ media_pc = "adapter"
    /\ adapter_result' = result
    /\ review_scale' = scale
    /\ \E sorted \in SortedByRichness(result.media) :
          import' = [result EXCEPT !.media = sorted]
    /\ \E r \in { CreateCollections(result.collections, 1, ok) } :
          /\ service_log' = r.log
          /\ media_pc' = IF r.abort THEN "aborted" ELSE "items"
          /\ running' = IF r.abort THEN running \ { MediaJob } ELSE running
    /\ UNCHANGED << reports, now, sweep_pc, all_jobs, sweepStart, sweepAlone,
                    settled, media_idx, workoutVars, exerciseVars, raceVars, pureVars >>

\* lines 328-458: one turn of the loop
MediaItemStep(o) ==
    /\ media_pc = "items"
    /\ media_idx <= Len(import.media)
    /\ \E r \in { import_item(import.media[media_idx], o, review_scale) } :
          /\ service_log' = service_log \o r.log
          /\ import' = [import EXCEPT !.failed_items = @ \o r.failed]
          /\ media_pc' = IF r.abort THEN "aborted" ELSE "items"
          /\ media_idx' = IF r.abort THEN media_idx ELSE media_idx + 1
          /\ running' = IF r.abort THEN running \ { MediaJob } ELSE running
    /\ UNCHANGED << reports, now, sweep_pc, all_jobs, sweepStart, sweepAlone,
                    settled, adapter_result, review_scale, workoutVars, exerciseVars,
                    raceVars, pureVars >>

\* lines 459-475: the summary job is asked for, its error dropped, and the
\* job record is finished
MediaFinish(summary_ok) ==
    /\ media_pc = "items"
    /\ media_idx > Len(import.media)
    /\ service_log' = Append(service_log,
                             Call("deploy_recalculate_summary_job", "", << >>, summary_ok))
    /\ reports' = finish_import_job(reports, MediaJob, now,
                      [import |-> [total |-> Len(import.media)],
                       failed_items |-> import.failed_items])
    /\ running' = running \ { MediaJob }
    /\ media_pc' = "done"
    /\ Disturb
    /\ UNCHANGED << now, sweep_pc, all_jobs, sweepStart, import, adapter_result,
                    media_idx, review_scale, workoutVars, exerciseVars, raceVars,
                    pureVars >>

InitMedia == WorkoutIdle /\ JobsIdle /\ MediaIdle /\ ExercisesIdle /\ RaceIdle /\ PureIdle

NextMedia ==
    \/ MediaStart
    \/ MediaAdapterFails
    \/ \E result \in AdapterResults : MediaPreferencesFail(result)
    \/ \E result \in AdapterResults, scale \in { "OutOfFive", "OutOfHundred" } :
          \E ok \in Outcomes(Len(result.collections)) :
             MediaPrepare(result, scale, ok)
    \/ \E o \in NextItemOutcomes : MediaItemStep(o)
    \/ \E summary_ok \in BOOLEAN : MediaFinish(summary_ok)

SpecMedia == InitMedia /\ [][NextMedia]_vars

\* ---------------------------------------------------- claims on import_media
CommitCalls == { "commit_media", "commit_media_internal" }

\* the positions in the log of the calls made for the item id
CallsFor(id) == { k \in 1..Len(service_log) : service_log[k].id = id }

\* the number of calls of the given kind made for the item id
CountCalls(id, call) ==
    Cardinality({ k \in CallsFor(id) : service_log[k].call = call })

CommitFailed(id) ==
    \E k \in CallsFor(id) :
        service_log[k].call \in CommitCalls /\ ~service_log[k].ok

Committed(id) ==
    \E k \in CallsFor(id) :
        service_log[k].call \in CommitCalls /\ service_log[k].ok

\* the positions in import.failed_items of the entries of the item id
FailedEntries(id) ==
    { k \in 1..Len(import.failed_items) : import.failed_items[k].identifier = id }

\* every sub-step of the item was attempted
FullyProcessed(item) ==
    /\ CountCalls(item.source_id, "progress_update") = Len(item.seen_history)
    /\ CountCalls(item.source_id, "post_review")
          = Cardinality({ k \in 1..Len(item.reviews) :
                            item.reviews[k].review \/ IsSome(item.reviews[k].rating) })
    /\ CountCalls(item.source_id, "create_or_update_collection") = Len(item.collections)
    /\ CountCalls(item.source_id, "add_entity_to_collection") = Len(item.collections)

\* C7: an item whose catalog resolution failed has exactly one failed-item
\* entry, tagged MediaDetailsFromProvider, and none of its sub-steps ran; the
\* failure does not end the run (a run ends early only on a collection
\* error); and a run that reaches its end has fully processed every other
\* item and finished the job with success = true.
C7_CatalogFailureIsolated ==
    /\ \A k \in 1..Len(import.media) :
          CommitFailed(import.media[k].source_id) =>
             /\ Cardinality(FailedEntries(import.media[k].source_id)) = 1
             /\ \A e \in FailedEntries(import.media[k].source_id) :
                   import.failed_items[e].step = "MediaDetailsFromProvider"
             /\ Cardinality(CallsFor(import.media[k].source_id)) = 1
             /\ k < media_idx
    /\ (media_pc = "aborted" /\ service_log # << >>) =>
          /\ service_log[Len(service_log)].call = "create_or_update_collection"
          /\ ~service_log[Len(service_log)].ok
    /\ media_pc = "done" =>
          /\ reports[MediaJob].success = Some(TRUE)
          /\ \A k \in 1..Len(import.media) :
                \/ CommitFailed(import.media[k].source_id)
                \/ /\ Committed(import.media[k].source_id)
                   /\ FullyProcessed(import.media[k])

\* a batch of three items is done: the second failed catalog resolution, it
\* is the only failed item, the first and the third were committed
C7_Witness ==
    /\ media_pc = "done"
    /\ Len(import.media) = 3
    /\ CommitFailed(import.media[2].source_id)
    /\ Committed(import.media[1].source_id)
    /\ Committed(import.media[3].source_id)
    /\ Len(import.failed_items) = 1
    /\ import.failed_items[1].step = "MediaDetailsFromProvider"
    /\ reports[MediaJob].success = Some(TRUE)

\* C12: when the source adapter returns an error, the job record of the run
\* has success = false as the run returns.
C12_AdapterErrorMarksJobFailed ==
    [][MediaAdapterFails => reports'[MediaJob].success = Some(FALSE)]_vars

\* C15: every sub-step of an item whose catalog entry was resolved is
\* attempted whatever the outcome of the earlier ones, and no sub-step of an
\* item ends the run.
C15_SubStepFailuresIsolated ==
    /\ \A k \in 1..Len(import.media) :
          (/\ Committed(import.media[k].source_id)
           /\ (k < media_idx \/ media_pc \in { "done", "aborted" }))
             => FullyProcessed(import.media[k])
    /\ media_pc = "aborted" =>
          \A k \in 1..Len(import.media) : CallsFor(import.media[k].source_id) = {}

\* the positions in the log of the catalog resolutions, in order
CommitPositions ==
    { k \in 1..Len(service_log) : service_log[k].call \in CommitCalls }

\* the item of the adapter's result with the given source id
AdapterItem(id) ==
    CHOOSE m \in { adapter_result.media[k] : k \in 1..Len(adapter_result.media) } :
        m.source_id = id

\* C20: the items are processed in non-increasing order of richness: no
\* item of the adapter's result is processed before one of strictly
\* greater richness, and a finished run has processed them all.
C20_RicherItemsFirst ==
    /\ \A a, b \in CommitPositions :
          a < b => Richness(AdapterItem(service_log[a].id))
                      >= Richness(AdapterItem(service_log[b].id))
    /\ \A a, b \in CommitPositions :
          a # b => service_log[a].id # service_log[b].id
    /\ media_pc = "done" =>
          { service_log[a].id : a \in CommitPositions }
              = { adapter_result.media[k].source_id :
                     k \in 1..Len(adapter_result.media) }

\* a run is done whose adapter returned three items with the richest last,
\* after two of equal richness, and the richest was processed first
C20_Witness ==
    /\ media_pc = "done"
    /\ Len(adapter_result.media) = 3
    /\ Cardinality(CommitPositions) = 3
    /\ Richness(adapter_result.media[1]) = Richness(adapter_result.media[2])
    /\ Richness(adapter_result.media[2]) < Richness(adapter_result.media[3])
    /\ import.media[1] = adapter_result.media[3]

\* ======================================================== import_exercises
\* the workouts a Strong app export can hold: two that commit, one without
\* exercises and one with an exercise without sets
WorkoutPool ==
    { << ExerciseInput(1, << SetA >>) >>,
      << ExerciseInput(1, << SetB >>), ExerciseInput(2, << SetA, SetD >>) >>,
      << >>,
      << ExerciseInput(1, << >>) >> }

\* the adapter's import.workouts
WorkoutBatches == SeqsUpTo(WorkoutPool, Len(WorkoutIdSeq))

\* the id of the job record of the import_exercises run
ExercisesJob == 1

\* no workout has been committed; the preferences are any
InitWorkoutStore ==
    /\ assoc = << >>
    /\ workouts = << >>
    /\ save_history \in 0..MaxSaveHistory
    /\ unit_system = "Metric"
    /\ calls = 0
    /\ lastCall = NoCall

\* line 267
ExercisesStart ==
    /\ exercises_pc = "idle"
    /\ reports = << >>
    /\ reports' = start_import_job(reports, now)
    /\ running' = running \cup { ExercisesJob }
    /\ exercises_pc' = "adapter"
    /\ Disturb
    /\ UNCHANGED << now, sweep_pc, all_jobs, sweepStart, import_workouts,
                    workout_idx, exercises_details, commit_log, workoutVars,
                    mediaVars, raceVars, pureVars >>

\* lines 268-273: the adapter returns an error
ExercisesAdapterFails ==
    /\ exercises_pc = "adapter"
    /\ exercises_pc' = "aborted"
    /\ running' = running \ { ExercisesJob }
    /\ UNCHANGED << reports, now, sweep_pc, all_jobs, sweepStart, sweepAlone,
                    settled, import_workouts, workout_idx, exercises_details,
                    commit_log, workoutVars, mediaVars, raceVars, pureVars >>

\* lines 268-279: the adapter's result and the details built from it
ExercisesAdapter(batch) ==
    /\ exercises_pc = "adapter"
    /\ exercises_pc' = "workouts"
    /\ import_workouts' = batch
    /\ exercises_details' = Some([import |-> [total |-> Len(batch)],
                                  failed_items |-> << >>])
    /\ UNCHANGED << reports, now, running, sweep_pc, all_jobs, sweepStart,
                    sweepAlone, settled, workout_idx, commit_log, workoutVars,
                    mediaVars, raceVars, pureVars >>

\* variant of the loop turn that stops the run when the commit fails
create_user_workout_or_abort(result) == IF result = "Ok" THEN "workouts" ELSE "aborted"

\* lines 281-284: the result of create_user_workout is dropped by .ok()
create_user_workout_ok(result) == "workouts"

\* lines 280-285: one turn of the loop
ExercisesWorkout ==
    /\ exercises_pc = "workouts"
    /\ workout_idx <= Len(import_workouts)
    /\ \E r \in { calculate_and_commit(import_workouts[workout_idx], assoc, workouts,
                                        WorkoutIdSeq[calls + 1], save_history,
                                        unit_system) } :
          /\ assoc' = r.assoc
          /\ workouts' = r.workouts
          /\ lastCall' = [op |-> "commit", id |-> WorkoutIdSeq[calls + 1],
                          input |-> import_workouts[workout_idx],
                          result |-> r.result]
          /\ commit_log' = Append(commit_log,
                                  [workout |-> workout_idx, result |-> r.result])
          /\ exercises_pc' = create_user_workout_ok(r.result)
    /\ calls' = calls + 1
    /\ workout_idx' = workout_idx + 1
    /\ running' = IF exercises_pc' = "aborted" THEN running \ { ExercisesJob }
                  ELSE running
    /\ UNCHANGED << save_history, unit_system, reports, now, sweep_pc, all_jobs,
                    sweepStart, sweepAlone, settled, import_workouts,
                    exercises_details, mediaVars, raceVars, pureVars >>

\* line 286
ExercisesFinish ==
    /\ exercises_pc = "workouts"
    /\ workout_idx > Len(import_workouts)
    /\ reports' = finish_import_job(reports, ExercisesJob, now, Get(exercises_details))
    /\ running' = running \ { ExercisesJob }
    /\ exercises_pc' = "done"
    /\ Disturb
    /\ UNCHANGED << now, sweep_pc, all_jobs, sweepStart, import_workouts,
                    workout_idx, exercises_details, commit_log, workoutVars,
                    mediaVars, raceVars, pureVars >>

InitExercises == InitWorkoutStore /\ JobsIdle /\ MediaIdle /\ ExercisesIdle /\ RaceIdle /\ PureIdle

NextExercises ==
    \/ ExercisesStart
    \/ ExercisesAdapterFails
    \/ \E batch \in WorkoutBatches : ExercisesAdapter(batch)
    \/ ExercisesWorkout
    \/ ExercisesFinish

SpecExercises == InitExercises /\ [][NextExercises]_vars

\* ------------------------------------------------- claims on import_exercises
\* the positions in the log of the workouts whose commit failed
FailedCommits == { k \in 1..Len(commit_log) : commit_log[k].result # "Ok" }

\* C13: at the completion of a workout batch, every workout whose commit
\* failed has an entry in the failed-item list of the job record.
C13_EveryItemErrorReported ==
    exercises_pc = "done" =>
        Cardinality(FailedCommits)
            <= Len(Get(reports[ExercisesJob].details).failed_items)

\* C14: every workout of the batch is handed to the commit exactly once and
\* in list order, a failed commit does not end the run, and the run ends
\* with the job finished, success = true and total = the size of the batch.
C14_WorkoutBatchReplayed ==
    /\ Len(commit_log) = workout_idx - 1
    /\ Len(commit_log) <= Len(import_workouts)
    /\ \A k \in 1..Len(commit_log) : commit_log[k].workout = k
    /\ exercises_pc = "aborted" => (commit_log = << >> /\ exercises_details = None)
    /\ exercises_pc = "done" =>
          /\ Len(commit_log) = Len(import_workouts)
          /\ reports[ExercisesJob].success = Some(TRUE)
          /\ Get(reports[ExercisesJob].details).import.total = Len(import_workouts)

\* a batch of two workouts is done: the commit of the first failed, the
\* second was committed
C14_Witness ==
    /\ exercises_pc = "done"
    /\ Len(import_workouts) = 2
    /\ commit_log[1].result # "Ok"
    /\ commit_log[2].result = "Ok"
    /\ lastCall.input = import_workouts[2]
    /\ reports[ExercisesJob].success = Some(TRUE)

\* ============================================== commits and deletes together
\* delete_existing, lines 311-317: the history without its first entry for
\* this workout and this position of the stored exercise
RemoveFromHistory(history, workout_id, idx) ==
    LET hits == { i \in 1..Len(history) :
                    history[i].workout_id = workout_id /\ history[i].idx = idx }
    IN  IF hits = {} THEN history
        ELSE LET ex_idx == CHOOSE i \in hits : \A j \in hits : i <= j
             IN  SubSeq(history, 1, ex_idx - 1) \o SubSeq(history, ex_idx + 1, Len(history))

\* variant of DeleteFromAssociation that also clears the PB table
DeleteFromAssociation_clearing(row, workout_id, idx) ==
    [row EXCEPT !.num_times_interacted = @ - 1,
                !.history = RemoveFromHistory(@, workout_id, idx),
                !.personal_bests = << >>]

\* delete_existing, lines 309-320: the association row as it is written back
DeleteFromAssociation(row, workout_id, idx) ==
    [row EXCEPT !.num_times_interacted = @ - 1,
                !.history = RemoveFromHistory(@, workout_id, idx)]

\* delete_existing, lines 302-322: the loop over the stored exercises
RECURSIVE DeleteLoop(_, _, _, _)
DeleteLoop(exs, k, tbl, workout_id) ==
    IF k > Len(exs) THEN tbl
    ELSE DeleteLoop(exs, k + 1,
                    (exs[k].id :> DeleteFromAssociation(tbl[exs[k].id], workout_id, k - 1))
                        @@ tbl,
                    workout_id)

\* workout::Model::delete_existing: the store after the call
delete_existing(workout, tbl, rows) ==
    [assoc |-> DeleteLoop(workout.information.exercises, 1, tbl, workout.id),
     workouts |-> [w \in DOMAIN rows \ { workout.id } |-> rows[w]]]

\* inputs with an exercise that has no definition (id 3), with the same
\* exercise twice, and with two different exercises
StoreInputs ==
    { << ExerciseInput(1, << SetA >>) >>,
      << ExerciseInput(3, << SetA >>), ExerciseInput(1, << SetB >>) >>,
      << ExerciseInput(1, << SetA >>), ExerciseInput(1, << SetB >>) >>,
      << ExerciseInput(1, << SetB >>), ExerciseInput(3, << SetB >>),
         ExerciseInput(2, << SetA, SetD >>) >>,
      << ExerciseInput(3, << >>) >>,
      << ExerciseInput(3, << SetA >>) >> }

DeleteExisting(id) ==
    /\ id \in DOMAIN workouts
    /\ \E r \in { delete_existing(workouts[id], assoc, workouts) } :
          /\ assoc' = r.assoc
          /\ workouts' = r.workouts
    /\ lastCall' = [op |-> "delete", id |-> id, input |-> << >>, result |-> "Ok"]
    /\ UNCHANGED << save_history, unit_system, calls, jobVars, mediaVars, raceVars, pureVars,
                    exerciseVars >>

InitStore == InitWorkoutStore /\ JobsIdle /\ MediaIdle /\ ExercisesIdle /\ RaceIdle /\ PureIdle

NextStore ==
    \/ \E input \in StoreInputs : Commit(input)
    \/ \E id \in DOMAIN workouts : DeleteExisting(id)

SpecStore == InitStore /\ [][NextStore]_vars

\* ------------------------------------------------------ claims on the store
\* the step is a call of delete_existing
IsDeleteStep == lastCall'.op = "delete" /\ lastCall'.id \in DOMAIN workouts

\* the exercises stored in the workout row id
StoredExercises(id) == workouts[id].information.exercises

\* how often the exercise e is stored in the workout row id
Occurrences(id, e) ==
    Cardinality({ k \in 1..Len(StoredExercises(id)) : StoredExercises(id)[k].id = e })

\* some history still names the workout id
Referred(tbl, id) ==
    \E e \in DOMAIN tbl :
        \E i \in 1..Len(tbl[e].history) : tbl[e].history[i].workout_id = id

\* C16: a delete lowers the interaction counter of every exercise stored in
\* the workout by one per stored occurrence, and afterwards no history has
\* an entry that refers to the workout.
C16_DeleteUndoesCounterAndHistory ==
    [][IsDeleteStep =>
          /\ \A e \in DOMAIN assoc :
                assoc'[e].num_times_interacted
                    = assoc[e].num_times_interacted - Occurrences(lastCall'.id, e)
          /\ ~Referred(assoc', lastCall'.id)]_vars

\* C17: a delete leaves the lifetime totals and the PB table of every
\* association exactly as they were.
C17_DeleteKeepsTotalsAndBests ==
    [][IsDeleteStep =>
          /\ DOMAIN assoc' = DOMAIN assoc
          /\ \A e \in DOMAIN assoc :
                /\ assoc'[e].lifetime_stats = assoc[e].lifetime_stats
                /\ assoc'[e].personal_bests = assoc[e].personal_bests]_vars

\* a workout was deleted and a PB record that refers to it is still stored,
\* with the lifetime totals it contributed to
C17_Witness ==
    /\ lastCall.op = "delete"
    /\ lastCall.id \notin DOMAIN workouts
    /\ \E e \in DOMAIN assoc :
          /\ assoc[e].lifetime_stats.reps > 0
          /\ \E i \in 1..Len(assoc[e].personal_bests) :
                \E j \in 1..Len(assoc[e].personal_bests[i].sets) :
                    assoc[e].personal_bests[i].sets[j].workout_id = lastCall.id

\* the exercises of the input that have a definition, in input order
Resolvable(input) ==
    SelectSeq(input, LAMBDA ex : ex.exercise_id \in DOMAIN ExerciseTable)

\* the association row without the positions kept in its history
WithoutPositions(row) ==
    [row EXCEPT !.history = [i \in 1..Len(row.history) |-> row.history[i].workout_id]]

\* C18: a commit of an input all of whose exercises have sets succeeds
\* whatever exercises lack a definition; it creates no association for
\* those, stores exactly the resolvable exercises in input order, and leaves
\* the store as the commit of the resolvable exercises alone would, up to
\* the positions recorded in the histories.
C18_UnknownExerciseSkipped ==
    [][(/\ IsCommitStep
        /\ lastCall'.input # << >>
        /\ ~HasEmptyExercise(lastCall'.input)) =>
          LET input == lastCall'.input
              alone == commit_exercises(Resolvable(input), assoc, workouts,
                                        lastCall'.id, save_history, unit_system)
          IN  /\ lastCall'.result = "Ok"
              /\ DOMAIN assoc' \subseteq DOMAIN ExerciseTable
              /\ DOMAIN assoc' = DOMAIN alone.assoc
              /\ \A e \in DOMAIN assoc' :
                    WithoutPositions(assoc'[e]) = WithoutPositions(alone.assoc[e])
              /\ workouts' = alone.workouts
              /\ Len(workouts'[lastCall'.id].information.exercises)
                    = Len(Resolvable(input))
              /\ \A k \in 1..Len(Resolvable(input)) :
                    workouts'[lastCall'.id].information.exercises[k].id
                        = Resolvable(input)[k].exercise_id]_vars

\* a commit of three exercises, the middle one without a definition,
\* succeeded and stored the other two in order
C18_Witness ==
    /\ lastCall.op = "commit"
    /\ lastCall.result = "Ok"
    /\ Len(lastCall.input) = 3
    /\ lastCall.input[2].exercise_id \notin DOMAIN ExerciseTable
    /\ lastCall.id \in DOMAIN workouts
    /\ Len(workouts[lastCall.id].information.exercises) = 2
    /\ workouts[lastCall.id].information.exercises[1].id = lastCall.input[1].exercise_id
    /\ workouts[lastCall.id].information.exercises[2].id = lastCall.input[3].exercise_id

\* ======================================================= concurrent commits
\* two commits, each of one workout with one exercise of the same
\* definition, run at the same time
Racers == { 1, 2 }
RaceExercise == 1

\* the sets each of the two commits brings
RaceInputs == { << ExerciseInput(RaceExercise, << SetA >>) >>,
                << ExerciseInput(RaceExercise, << SetB >>) >> }

\* the store before the two commits: empty, or after an earlier commit
RaceStores ==
    { [assoc |-> << >>, workouts |-> << >>] } \cup
    { [assoc |-> r.assoc, workouts |-> r.workouts] :
        r \in { calculate_and_commit(<< ExerciseInput(RaceExercise, << SetA >>) >>,
                                     << >>, << >>, "w0", sh, "Metric") :
                  sh \in { MaxSaveHistory } } }

\* the table a commit believes in: the row it found, if any
SnapshotTable(found) ==
    IF IsSome(found) THEN (RaceExercise :> Get(found)) ELSE << >>

\* variant of RaceBasis that reads the row again before the final update
RaceBasis_reread(tbl, found) ==
    IF RaceExercise \in DOMAIN tbl THEN (RaceExercise :> tbl[RaceExercise]) ELSE << >>

\* lines 244-248: the final update starts from the association the commit
\* holds since its own insert or update, not from the stored row
RaceBasis(tbl, found) == SnapshotTable(found)

\* lines 128-134: the commit looks for the association
RaceFind(p) ==
    /\ race_pc[p] = "find"
    /\ race_local' = [race_local EXCEPT ![p].found =
                         IF RaceExercise \in DOMAIN assoc
                         THEN Some(assoc[RaceExercise]) ELSE None]
    /\ race_pc' = [race_pc EXCEPT ![p] = "upsert"]
    /\ UNCHANGED << workoutVars, race_last, jobVars, mediaVars, exerciseVars, pureVars >>

\* lines 139-165: it inserts the association, or updates the one it found
\* with the counter and the history it read; the insert of a second row
\* for the same user and exercise breaks the unique index and the unwrap
\* of line 153 panics
RaceUpsert(p) ==
    /\ race_pc[p] = "upsert"
    /\ IF race_local[p].found = None /\ RaceExercise \in DOMAIN assoc
       THEN /\ race_pc' = [race_pc EXCEPT ![p] = "panicked"]
            /\ UNCHANGED assoc
       ELSE /\ race_pc' = [race_pc EXCEPT ![p] = "update"]
            /\ assoc' = (RaceExercise :>
                            LoadOrCreate(SnapshotTable(race_local[p].found),
                                         RaceExercise,
                                         [workout_id |-> WorkoutIdSeq[p], idx |-> 0]))
                        @@ assoc
    /\ UNCHANGED << workouts, save_history, unit_system, calls, lastCall,
                    race_local, race_last, jobVars, mediaVars, exerciseVars, pureVars >>

\* lines 166-294: the sets, the records, the final update of the extra
\* information (the counter is not written) and the workout row
RaceUpdate(p) ==
    /\ race_pc[p] = "update"
    /\ \E r \in { ProcessExercise(RaceBasis(assoc, race_local[p].found),
                                  race_local[p].input[1], 0, WorkoutIdSeq[p],
                                  save_history, unit_system) } :
          /\ assoc' = (RaceExercise :>
                          [r.row EXCEPT !.num_times_interacted =
                               assoc[RaceExercise].num_times_interacted])
                      @@ assoc
          /\ workouts' = (WorkoutIdSeq[p] :>
                             WorkoutModel(WorkoutIdSeq[p], << r.processed >>))
                         @@ workouts
    /\ race_pc' = [race_pc EXCEPT ![p] = "done"]
    /\ race_last' = Some(p)
    /\ UNCHANGED << save_history, unit_system, calls, lastCall, race_local,
                    jobVars, mediaVars, exerciseVars, pureVars >>

InitRace ==
    /\ \E st \in RaceStores : assoc = st.assoc /\ workouts = st.workouts
    /\ save_history = MaxSaveHistory
    /\ unit_system \in { "Metric", "Imperial" }
    /\ calls = 0
    /\ lastCall = NoCall
    /\ race_pc = [p \in Racers |-> "find"]
    /\ race_local \in [Racers -> [input : RaceInputs, found : { None }]]
    /\ race_last = None
    /\ JobsIdle /\ MediaIdle /\ ExercisesIdle /\ PureIdle

NextRace ==
    \/ \E p \in Racers : RaceFind(p)
    \/ \E p \in Racers : RaceUpsert(p)
    \/ \E p \in Racers : RaceUpdate(p)

SpecRace == InitRace /\ [][NextRace]_vars

\* ------------------------------------------------ claims on concurrent commits
\* both commits have ended
RaceEnded == \A p \in Racers : race_pc[p] \in { "done", "panicked" }

\* the reps of the workout row id, if it is stored
RowReps(id) == IF id \in DOMAIN workouts THEN workouts[id].summary.total.reps ELSE 0

\* C19: when both commits have ended, the lifetime totals and the PB table
\* of the association are those the last writer computed from the row it
\* had read, whatever the other commit wrote in between.
C19_LastWriterWins ==
    (RaceEnded /\ IsSome(race_last)) =>
        LET p == Get(race_last)
            r == ProcessExercise(SnapshotTable(race_local[p].found),
                                 race_local[p].input[1], 0, WorkoutIdSeq[p],
                                 save_history, unit_system).row
        IN  /\ assoc[RaceExercise].lifetime_stats = r.lifetime_stats
            /\ assoc[RaceExercise].personal_bests = r.personal_bests

\* both commits are done and both workout rows are stored, but the lifetime
\* reps of the association are fewer than the reps of the stored workouts:
\* one commit's contribution is missing
C19_Witness ==
    /\ \A p \in Racers : race_pc[p] = "done"
    /\ \A p \in Racers : WorkoutIdSeq[p] \in DOMAIN workouts
    /\ assoc[RaceExercise].lifetime_stats.reps
          < RowReps("w0") + RowReps("w1") + RowReps("w2")

\* ================================================== the set record functions
\* the values a field of a set statistic takes: absent, zero, two whole
\* numbers
FieldValues(scale) == { None, Some(0), Some(2 * scale), Some(3 * scale) }

\* every set statistic over those values; reps is a count, the others are
\* decimals
StatInputs ==
    { Stat(du, di, r, w) :
        du \in FieldValues(DecScale), di \in FieldValues(DecScale),
        r \in FieldValues(1), w \in FieldValues(DecScale) }

UnitSystems == { "Metric", "Imperial" }

\* translate_units applied once and twice to a set
TranslateUnits(stat, unit_type) ==
    /\ evaluated' = [op |-> "translate_units", stat |-> stat, unit_type |-> unit_type,
                     once |-> translate_units(stat, unit_type),
                     twice |-> translate_units(translate_units(stat, unit_type),
                                               unit_type)]
    /\ UNCHANGED << workoutVars, jobVars, mediaVars, exerciseVars, raceVars >>

\* remove_invalids applied to a set of an exercise of the given type
RemoveInvalids(stat, lot) ==
    /\ evaluated' = [op |-> "remove_invalids", stat |-> stat, lot |-> lot,
                     result |-> remove_invalids(stat, lot)]
    /\ UNCHANGED << workoutVars, jobVars, mediaVars, exerciseVars, raceVars >>

InitSets ==
    /\ WorkoutIdle /\ JobsIdle /\ MediaIdle /\ ExercisesIdle /\ RaceIdle
    /\ PureIdle

NextSets ==
    \/ \E stat \in StatInputs, unit_type \in UnitSystems : TranslateUnits(stat, unit_type)
    \/ \E stat \in StatInputs, lot \in Lots : RemoveInvalids(stat, lot)

SpecSets == InitSets /\ [][NextSets]_vars

\* the fields of a set statistic that are valid for an exercise type
ValidFields(lot) ==
    CASE lot = "Duration" -> { "duration" }
      [] lot = "DistanceAndDuration" -> { "duration", "distance" }
      [] lot = "RepsAndWeight" -> { "reps", "weight" }

\* C21: remove_invalids keeps each field valid for the exercise type at its
\* input value and empties every other field.
C21_RemoveInvalidsKeepsValidOnly ==
    evaluated.op = "remove_invalids" =>
        \A f \in { "duration", "distance", "reps", "weight" } :
            evaluated.result[f] = IF f \in ValidFields(evaluated.lot)
                                  THEN evaluated.stat[f] ELSE None

\* a set with all four fields present was sanitised for a Duration exercise
C21_Witness ==
    /\ evaluated.op = "remove_invalids"
    /\ evaluated.lot = "Duration"
    /\ \A f \in { "duration", "distance", "reps", "weight" } :
          IsSome(evaluated.stat[f]) /\ Get(evaluated.stat[f]) > 0
    /\ evaluated.result = Stat(evaluated.stat.duration, None, None, None)

\* a decimal field holding a whole number, times a factor given in units of
\* 1/DecScale
Times(field, factor) ==
    IF IsSome(field) THEN Some((Get(field) \div DecScale) * factor) ELSE None

\* C22: Metric leaves the set unchanged however often it is applied;
\* Imperial multiplies a present weight by 0.45359 and a present distance
\* by 1.60934 and leaves reps, duration and absent fields as they are; and
\* applied twice to a set with a non-zero weight or distance it gives
\* another result than applied once.
C22_TranslateUnits ==
    evaluated.op = "translate_units" =>
        /\ evaluated.unit_type = "Metric" =>
              evaluated.once = evaluated.stat /\ evaluated.twice = evaluated.stat
        /\ evaluated.unit_type = "Imperial" =>
              /\ evaluated.once.weight = Times(evaluated.stat.weight, 45359)
              /\ evaluated.once.distance = Times(evaluated.stat.distance, 160934)
              /\ evaluated.once.reps = evaluated.stat.reps
              /\ evaluated.once.duration = evaluated.stat.duration
              /\ ((\/ evaluated.stat.weight \notin { None, Some(0) }
                   \/ evaluated.stat.distance \notin { None, Some(0) })
                     => evaluated.twice # evaluated.once)

\* an Imperial set with weight 2 and distance 3 was converted: once gives
\* 0.90718 and 4.82802, twice something else
C22_Witness ==
    /\ evaluated.op = "translate_units"
    /\ evaluated.unit_type = "Imperial"
    /\ evaluated.stat.weight = Some(2 * DecScale)
    /\ evaluated.stat.distance = Some(3 * DecScale)
    /\ evaluated.once.weight = Some(90718)
    /\ evaluated.once.distance = Some(482802)
    /\ evaluated.twice # evaluated.once

\* ---------------------------------------------------------------------
\* Claims about the association's counter and history (SpecStore)

\* the positions at which a commit processed exercise e, latest first
RECURSIVE PositionsLatestFirst(_)
PositionsLatestFirst(ps) ==
    IF ps = {} THEN << >>
    ELSE LET top == CHOOSE p \in ps : \A q \in ps : q <= p
         IN  << top >> \o PositionsLatestFirst(ps \ {top})

\* C23: the first commit of an exercise creates the association with
\* interaction counter 1 and a history holding exactly the (workout id,
\* position) entry of that commit; every later commit of the exercise
\* raises the counter by exactly 1 and puts its entry at the front of the
\* history, so the history is ordered most recent first.
C23_CounterAndHistory ==
    [][IsCommitStep =>
         \A e \in DOMAIN assoc' :
            LET ps == PositionsLatestFirst(ProcessedPositions(lastCall'.input, e))
                entries == [i \in 1..Len(ps) |->
                              [workout_id |-> lastCall'.id, idx |-> ps[i]]]
            IN  IF e \in DOMAIN assoc
                THEN /\ assoc'[e].num_times_interacted
                          = assoc[e].num_times_interacted + Len(ps)
                     /\ assoc'[e].history = entries \o assoc[e].history
                ELSE /\ Len(ps) >= 1
                     /\ assoc'[e].num_times_interacted = 1 + (Len(ps) - 1)
                     /\ assoc'[e].history = entries]_vars

\* a second commit of an exercise has raised the counter from 1 to 2 and put
\* its entry in front of the entry of the first commit
C23_Witness ==
    /\ lastCall.op = "commit" /\ lastCall.id = "w2"
    /\ \E e \in DOMAIN assoc :
          /\ assoc[e].num_times_interacted = 2
          /\ Len(assoc[e].history) = 2
          /\ assoc[e].history[1].workout_id = "w2"
          /\ assoc[e].history[2].workout_id = "w1"

\* ---------------------------------------------------------------------
\* Claims about the lifetime totals (SpecStore)

TotalFields == {"personal_bests_achieved", "weight", "reps", "distance", "duration"}

\* what one stored set contributes to the measured totals of its exercise
SetContribution(st) ==
    [weight |-> IF IsSome(st.reps) /\ IsSome(st.weight)
                THEN Get(st.weight) * Get(st.reps) ELSE 0,
     reps |-> IF IsSome(st.reps) THEN Get(st.reps) ELSE 0,
     distance |-> IF IsSome(st.distance) THEN Get(st.distance) ELSE 0,
     duration |-> IF IsSome(st.duration) THEN Get(st.duration) ELSE 0]

\* the sum of f(k) over the set ks of numbers
RECURSIVE SumOver(_, _)
SumOver(ks, f) ==
    IF ks = {} THEN 0
    ELSE LET k == CHOOSE x \in ks : TRUE IN f[k] + SumOver(ks \ {k}, f)

\* the totals of one processed exercise, recomputed from its stored sets
TotalOfStored(pex) ==
    LET n == Len(pex.sets)
    IN  [personal_bests_achieved |->
             SumOver(1..n, [i \in 1..n |-> Len(pex.sets[i].personal_bests)]),
         weight |-> SumOver(1..n, [i \in 1..n |-> SetContribution(pex.sets[i].statistic).weight]),
         reps |-> SumOver(1..n, [i \in 1..n |-> SetContribution(pex.sets[i].statistic).reps]),
         distance |-> SumOver(1..n, [i \in 1..n |-> SetContribution(pex.sets[i].statistic).distance]),
         duration |-> SumOver(1..n, [i \in 1..n |-> SetContribution(pex.sets[i].statistic).duration])]

\* the lifetime totals of exercise e in a table, zero without an association
LifetimeOf(tbl, e) == IF e \in DOMAIN tbl THEN tbl[e].lifetime_stats ELSE DefaultTotal

\* C24: the lifetime totals of an association are the field-wise sum of the
\* per-exercise totals of every commit that processed the exercise: a
\* successful commit adds to each field the totals of every occurrence of
\* the exercise it stored, recomputed here from the stored sets, and a
\* delete takes nothing away.  With totals of zero before the first commit
\* this gives the sum after any sequence of commits and deletes.
C24_LifetimeTotalsAreSums ==
    [][/\ (IsCommitStep /\ lastCall'.result = "Ok") =>
            \A e \in DOMAIN assoc' :
               LET exs == workouts'[lastCall'.id].information.exercises
                   mine == {k \in 1..Len(exs) : exs[k].id = e}
               IN  \A f \in TotalFields :
                      /\ \A k \in mine : exs[k].total[f] = TotalOfStored(exs[k])[f]
                      /\ LifetimeOf(assoc', e)[f]
                           = LifetimeOf(assoc, e)[f]
                             + SumOver(mine, [k \in mine |-> exs[k].total[f]])
       /\ IsDeleteStep =>
            /\ DOMAIN assoc' = DOMAIN assoc
            /\ \A e \in DOMAIN assoc :
                  LifetimeOf(assoc', e) = LifetimeOf(assoc, e)]_vars

\* two commits processed the same exercise, the first was deleted again, and
\* the lifetime totals still hold the reps of both
C24_Witness ==
    /\ lastCall.op = "delete" /\ lastCall.id = "w1"
    /\ "w2" \in DOMAIN workouts
    /\ \E e \in DOMAIN assoc :
          /\ Occurrences("w2", e) = 1
          /\ \E k \in 1..Len(StoredExercises("w2")) :
                /\ StoredExercises("w2")[k].id = e
                /\ StoredExercises("w2")[k].total.reps > 0
                /\ assoc[e].lifetime_stats.reps > StoredExercises("w2")[k].total.reps

\* ---------------------------------------------------------------------
\* calculate_and_commit over a store that refuses one statement (SpecFaulty)

NoFault == [at |-> 0, step |-> "none"]

\* the statements of calculate_and_commit that reach the database: per
\* exercise the lookup of its definition (line 119), the lookup of the
\* association (lines 128-134), its insert or update (lines 153, 163) and
\* the final update (line 251); at the end the insert of the workout row
\* (line 293)
ExerciseStatements == {"find_exercise", "find_association", "upsert", "update"}

Faults(n) ==
    {NoFault} \cup {[at |-> n + 1, step |-> "insert_workout"]}
              \cup {[at |-> k, step |-> st] : k \in 1..n, st \in ExerciseStatements}

\* the element of a set of one element
Only(S) == CHOOSE x \in S : TRUE

\* the statement `step` of the k-th exercise is the one that fails
Fails(fault, k, step) == fault.at = k /\ fault.step = step

\* lines 115-265 with the statement `fault` failing
RECURSIVE CommitLoopFallible(_, _, _, _, _, _, _)
CommitLoopFallible(exs, k, st, id, sh, us, fault) ==
    IF k > Len(exs) THEN st
    ELSE IF Len(exs[k].sets) = 0
    THEN [st EXCEPT !.err = "This exercise has no associated sets"]
    ELSE IF Fails(fault, k, "find_exercise")
    THEN [st EXCEPT !.err = "DbErr"]
    ELSE IF exs[k].exercise_id \notin DOMAIN ExerciseTable
    THEN CommitLoopFallible(exs, k + 1, st, id, sh, us, fault)
    ELSE IF Fails(fault, k, "find_association") /\ exs[k].exercise_id \in DOMAIN st.assoc
    THEN [st EXCEPT !.err = "panic"]
    ELSE IF Fails(fault, k, "upsert")
    THEN [st EXCEPT !.err = IF exs[k].exercise_id \in DOMAIN st.assoc
                            THEN "DbErr" ELSE "panic"]
    ELSE IF Fails(fault, k, "update")
    THEN [st EXCEPT
            !.assoc = (exs[k].exercise_id :>
                         LoadOrCreate(st.assoc, exs[k].exercise_id,
                                      [workout_id |-> id, idx |-> k - 1])) @@ @,
            !.err = "DbErr"]
    ELSE Only({ CommitLoopFallible(exs, k + 1, next, id, sh, us, fault) :
                  next \in { [st EXCEPT !.assoc = (exs[k].exercise_id :> r.row) @@ @,
                                        !.exercises = Append(@, r.processed)] :
                             r \in { ProcessExercise(st.assoc, exs[k], k - 1, id, sh, us) } } })

\* variant of FinishFallible that undoes the writes of a call that fails
FinishFallible_rolled_back(st, tbl, rows, id, fault) ==
    IF st.err # "none"
    THEN [assoc |-> tbl, workouts |-> rows, result |-> st.err]
    ELSE IF fault.step = "insert_workout"
    THEN [assoc |-> tbl, workouts |-> rows, result |-> "DbErr"]
    ELSE [assoc |-> st.assoc,
          workouts |-> (id :> WorkoutModel(id, st.exercises)) @@ rows,
          result |-> "Ok"]

\* lines 266-294 with the statement `fault` failing: the store the call
\* leaves behind and its result
FinishFallible(st, tbl, rows, id, fault) ==
    IF st.err # "none"
    THEN [assoc |-> st.assoc, workouts |-> rows, result |-> st.err]
    ELSE IF fault.step = "insert_workout"
    THEN [assoc |-> st.assoc, workouts |-> rows, result |-> "DbErr"]
    ELSE [assoc |-> st.assoc,
          workouts |-> (id :> WorkoutModel(id, st.exercises)) @@ rows,
          result |-> "Ok"]

\* lines 102-295 with the statement `fault` failing
calculate_and_commit_fallible(input, tbl, rows, id, sh, us, fault) ==
    IF Len(input) = 0
    THEN [assoc |-> tbl, workouts |-> rows,
          result |-> "This workout has no associated exercises"]
    ELSE Only({ FinishFallible(st, tbl, rows, id, fault) :
                  st \in { CommitLoopFallible(input, 1,
                             [assoc |-> tbl, exercises |-> << >>, err |-> "none"],
                             id, sh, us, fault) } })

\* workouts of one or two exercises, with and without a definition
FaultInputs ==
    { << ExerciseInput(1, << SetA >>) >>,
      << ExerciseInput(1, << SetB >>), ExerciseInput(2, << SetA, SetD >>) >>,
      << ExerciseInput(1, << SetA >>), ExerciseInput(1, << SetB >>) >>,
      << ExerciseInput(2, << SetD >>), ExerciseInput(3, << SetA >>) >>,
      << ExerciseInput(3, << SetA >>), ExerciseInput(1, << SetC >>) >> }

\* one call of calculate_and_commit during which the statement `fault` fails
CommitFallible(input, fault) ==
    /\ calls < Len(WorkoutIdSeq)
    /\ \E r \in { calculate_and_commit_fallible(input, assoc, workouts,
                                                 WorkoutIdSeq[calls + 1],
                                                 save_history, unit_system, fault) } :
           /\ assoc' = r.assoc
           /\ workouts' = r.workouts
           /\ lastCall' = [op |-> "commit", id |-> WorkoutIdSeq[calls + 1],
                           input |-> input, result |-> r.result, fault |-> fault]
    /\ calls' = calls + 1
    /\ UNCHANGED << save_history, unit_system, jobVars, mediaVars, raceVars, pureVars,
                    exerciseVars >>

InitFaulty == InitWorkoutStore /\ JobsIdle /\ MediaIdle /\ ExercisesIdle /\ RaceIdle /\ PureIdle

NextFaulty == \E input \in FaultInputs : \E fault \in Faults(Len(input)) :
                 CommitFallible(input, fault)

SpecFaulty == InitFaulty /\ [][NextFaulty]_vars

\* the commit of this step ended because a statement failed
IsFailedStatementStep ==
    /\ calls' = calls + 1
    /\ lastCall'.op = "commit"
    /\ lastCall'.result \in {"DbErr", "panic"}

\* the store after the exercises in front of position k were processed
\* without a failure
AfterEarlier(input, k, id) ==
    CommitLoop(SubSeq(input, 1, k - 1), 1,
               [assoc |-> assoc, exercises |-> << >>, err |-> "none"],
               id, save_history, unit_system).assoc

\* C25: the commit is not atomic: when a statement fails at a later exercise
\* or at the insert of the workout row, every association written for an
\* earlier exercise (counter, history entry, lifetime totals, PB records)
\* stays in the store as written, and no workout row with the id exists.
C25_CommitNotAtomic ==
    [][IsFailedStatementStep =>
         LET input == lastCall'.input
             k == lastCall'.fault.at
             earlier == AfterEarlier(input, k, lastCall'.id)
             failed_id == IF k <= Len(input) THEN input[k].exercise_id ELSE 0
         IN  /\ lastCall'.id \notin DOMAIN workouts'
             /\ workouts' = workouts
             /\ DOMAIN earlier \subseteq DOMAIN assoc'
             /\ \A e \in DOMAIN earlier \ {failed_id} : assoc'[e] = earlier[e]
             /\ \A e \in DOMAIN earlier \cap {failed_id} :
                    /\ assoc'[e].lifetime_stats = earlier[e].lifetime_stats
                    /\ assoc'[e].personal_bests = earlier[e].personal_bests
                    /\ assoc'[e].num_times_interacted >= earlier[e].num_times_interacted
             /\ (\E j \in 1..(k - 1) : input[j].exercise_id \in DOMAIN ExerciseTable)
                    => assoc' # assoc]_vars

\* the final update of the second exercise failed: the association of the
\* first exercise holds the entry and the totals of the workout, and no
\* workout row was written
C25_Witness ==
    /\ lastCall.op = "commit" /\ lastCall.result = "DbErr"
    /\ lastCall.fault = [at |-> 2, step |-> "update"]
    /\ lastCall.id \notin DOMAIN workouts
    /\ lastCall.input[1].exercise_id # lastCall.input[2].exercise_id
    /\ \E e \in DOMAIN assoc :
          /\ e = lastCall.input[1].exercise_id
          /\ assoc[e].history[1] = [workout_id |-> lastCall.id, idx |-> 0]
          /\ assoc[e].lifetime_stats.reps > 0
          /\ Len(assoc[e].personal_bests) > 0

\* ---------------------------------------------------------------------
\* Claims about the result summary of a media job (SpecMedia)

\* the failed-item entry a failed service call stands for
FailStepOf(call) ==
    IF call \in CommitCalls THEN "MediaDetailsFromProvider"
    ELSE IF call = "progress_update" THEN "SeenHistoryConversion"
    ELSE "ReviewConversion"

\* the failures of catalog resolutions, progress updates and reviews in
\* the log from position k on, in the order of the calls
RECURSIVE ReconciliationFailures(_, _)
ReconciliationFailures(log, k) ==
    IF k > Len(log) THEN << >>
    ELSE (IF /\ ~log[k].ok
             /\ log[k].call \in CommitCalls \cup {"progress_update", "post_review"}
          THEN << FailedItem(FailStepOf(log[k].call), log[k].id) >>
          ELSE << >>) \o ReconciliationFailures(log, k + 1)

\* C26: the summary written when a media job finishes has total equal to
\* the number of media items of the adapter's result, failed ones counted,
\* and its failed-item list is the adapter's failures followed by the
\* reconciliation failures in the order in which the items and their
\* sub-steps were processed.
C26_SummaryOfFinishedJob ==
    media_pc = "done" =>
        /\ IsSome(reports[MediaJob].details)
        /\ Get(reports[MediaJob].details).import.total = Len(adapter_result.media)
        /\ Get(reports[MediaJob].details).failed_items
              = adapter_result.failed_items \o ReconciliationFailures(service_log, 1)

\* a finished job of three items whose summary lists the adapter's failure,
\* then a failed progress update and a failed review of one item, and the
\* failed catalog resolution of a later item
C26_Witness ==
    /\ media_pc = "done"
    /\ Get(reports[MediaJob].details).import.total = 3
    /\ LET failed == Get(reports[MediaJob].details).failed_items
       IN  /\ Len(failed) = 4
           /\ failed[1].step = "ItemDetailsFromSource"
           /\ failed[2] = FailedItem("SeenHistoryConversion", "a")
           /\ failed[3] = FailedItem("ReviewConversion", "a")
           /\ failed[4].step = "MediaDetailsFromProvider"

\* ---------------------------------------------------------------------
\* The Strong app adapter (SpecStrong)

MaxRows == 3
MaxSetOrder == 2

\* the dates of the export, in the format of line 105, and what
\* NaiveDateTime::parse_from_str makes of them
StrongDates == << "2023-01-01 10:00:00", "2023-01-02 18:30:00" >>

ParseDate(date) ==
    IF \E i \in 1..Len(StrongDates) : StrongDates[i] = date
    THEN Some(CHOOSE i \in 1..Len(StrongDates) : StrongDates[i] = date)
    ELSE None

\* the exercise names of the export: one as mapped, one with a trailing
\* blank, one the mapping does not know
StrongNames == { "Bench", "Squat ", "Plank" }

\* str::trim on the names of the export
Trim(name) == IF name = "Squat " THEN "Squat" ELSE name

\* input.mapping and the (name, id) pairs of the exercise table, line 48-56
StrongMapping ==
    << [source_name |-> "Bench", target_name |-> "Bench Press"],
       [source_name |-> "Squat", target_name |-> "Barbell Squat"] >>

StrongExerciseIds == ("Bench Press" :> 1) @@ ("Barbell Squat" :> 2)

\* lines 88-93: the id the mapping gives an exercise name, None where
\* `find` finds nothing
MappedExerciseId(exercise_name) ==
    LET hits == { i \in 1..Len(StrongMapping) :
                    StrongMapping[i].source_name = Trim(exercise_name) }
    IN  IF hits = {} THEN None
        ELSE Some(StrongExerciseIds[
                 StrongMapping[CHOOSE i \in hits : \A j \in hits : i <= j].target_name])

\* a row of the export; names, notes and durations of the workout are
\* copied through and left out
Entry(date, set_order, exercise_name, weight, reps, distance, seconds) ==
    [date |-> date, set_order |-> set_order, exercise_name |-> exercise_name,
     weight |-> weight, reps |-> reps, distance |-> distance, seconds |-> seconds]

\* lines 66-70
SentinelEntry == Entry("invalid", 0, "", None, None, None, None)

\* variant of WithSentinel that appends nothing
WithSentinel_missing(entries) == entries

\* lines 65-70: the rows with the sentinel row behind them
WithSentinel(entries) == Append(entries, SentinelEntry)

\* lines 75-83: the set a row becomes
SetOfEntry(entry) ==
    RawSet(Stat(IF IsSome(entry.seconds) THEN Some(Get(entry.seconds) \div 60) ELSE None,
                entry.distance,
                entry.reps,
                IF IsSome(entry.weight)
                THEN Some(IF Get(entry.weight) = 0 THEN Dec(1) ELSE Get(entry.weight))
                ELSE None))

\* line 87
ClosesExercise(entry, next_entry) == next_entry.set_order <= entry.set_order

\* variant of ClosesWorkout in which a reset of the set order ends the
\* workout as well
ClosesWorkout_on_reset(entry, next_entry) ==
    next_entry.date # entry.date \/ next_entry.set_order <= entry.set_order

\* line 104
ClosesWorkout(entry, next_entry) == next_entry.date # entry.date

\* lines 74-131: the loop over the pairs of neighbouring rows
RECURSIVE StrongLoop(_, _, _)
StrongLoop(entries, k, st) ==
    IF k + 1 > Len(entries) THEN st
    ELSE LET entry == entries[k]
             next_entry == entries[k + 1]
             sets == Append(st.sets, SetOfEntry(entry))
             closes == ClosesExercise(entry, next_entry)
             exercise_id == MappedExerciseId(entry.exercise_name)
             exercises == IF closes
                          THEN Append(st.exercises,
                                      [exercise_id |-> Get(exercise_id), sets |-> sets])
                          ELSE st.exercises
             open == IF closes THEN << >> ELSE sets
         IN  IF closes /\ exercise_id = None
             THEN [st EXCEPT !.result = "panic"]
             ELSE IF ~ClosesWorkout(entry, next_entry)
             THEN StrongLoop(entries, k + 1,
                             [st EXCEPT !.sets = open, !.exercises = exercises])
             ELSE IF ParseDate(entry.date) = None
             THEN [st EXCEPT !.result = "panic"]
             ELSE StrongLoop(entries, k + 1,
                     [st EXCEPT
                        !.sets = open,
                        !.exercises = << >>,
                        !.workouts = Append(@, [start_time |-> Get(ParseDate(entry.date)),
                                                exercises |-> exercises])])

\* strong_app::import: the workouts of the result, or the panic
strong_app_import(entries) ==
    LET st == StrongLoop(WithSentinel(entries), 1,
                         [workouts |-> << >>, exercises |-> << >>, sets |-> << >>,
                          result |-> "Ok"])
    IN  [result |-> st.result,
         workouts |-> IF st.result = "Ok" THEN st.workouts ELSE << >>]

\* what a row says about its workout and exercise
RowKeys ==
    [date : { StrongDates[i] : i \in 1..Len(StrongDates) },
     set_order : 1..MaxSetOrder,
     exercise_name : StrongNames]

\* the row written at place k of the export: it carries k as its reps, at
\* odd places a weight of zero, at even places a time
RowAt(k, keys) ==
    Entry(keys.date, keys.set_order, keys.exercise_name,
          IF k % 2 = 1 THEN Some(0) ELSE None,
          Some(k), None,
          IF k % 2 = 0 THEN Some(Dec(90)) ELSE None)

\* the export gets one more row
StrongWriteRow(keys) ==
    /\ evaluated.op = "export_file"
    /\ Len(evaluated.rows) < MaxRows
    /\ evaluated' = [evaluated EXCEPT
                       !.rows = Append(@, RowAt(Len(evaluated.rows) + 1, keys))]
    /\ UNCHANGED << workoutVars, jobVars, mediaVars, exerciseVars, raceVars >>

\* the call of strong_app::import on the export file at hand
StrongImport ==
    /\ evaluated.op = "export_file"
    /\ evaluated' = [op |-> "strong_app_import", rows |-> evaluated.rows,
                     result |-> strong_app_import(evaluated.rows)]
    /\ UNCHANGED << workoutVars, jobVars, mediaVars, exerciseVars, raceVars >>

\* an empty export file is at hand and nothing else runs
InitStrong ==
    /\ WorkoutIdle /\ JobsIdle /\ MediaIdle /\ ExercisesIdle /\ RaceIdle
    /\ evaluated = [op |-> "export_file", rows |-> << >>]

NextStrong ==
    \/ \E keys \in RowKeys : StrongWriteRow(keys)
    \/ StrongImport

SpecStrong == InitStrong /\ [][NextStrong]_vars

\* --- claims about the adapter

\* the adapter was called and returned workouts
StrongReturned == evaluated.op = "strong_app_import" /\ evaluated.result.result = "Ok"

\* the number of the row a set was made from: the reps it carries
RowOf(set) == Get(set.statistic.reps)

\* the places << workout, exercise, set >> of the emitted sets
EmittedPlaces(ws) ==
    { << i, j, m >> : i \in 1..Len(ws), j \in 1..MaxRows + 1, m \in 1..MaxRows + 1 } \cap
    { pl \in (1..Len(ws)) \X (1..MaxRows + 1) \X (1..MaxRows + 1) :
        /\ pl[2] <= Len(ws[pl[1]].exercises)
        /\ pl[3] <= Len(ws[pl[1]].exercises[pl[2]].sets) }

SetAt(ws, pl) == ws[pl[1]].exercises[pl[2]].sets[pl[3]]

\* the places at which the set made from row k was emitted
PlacesOfRow(ws, k) == { pl \in EmittedPlaces(ws) : RowOf(SetAt(ws, pl)) = k }

\* the place of row k, where it was emitted once
PlaceOfRow(ws, k) == CHOOSE pl \in PlacesOfRow(ws, k) : TRUE

\* the place pl comes before the place ql in the output
PlaceBefore(pl, ql) ==
    \/ pl[1] < ql[1]
    \/ pl[1] = ql[1] /\ pl[2] < ql[2]
    \/ pl[1] = ql[1] /\ pl[2] = ql[2] /\ pl[3] < ql[3]

\* row k of the file has a set order that is not greater than that of the
\* row before it
OrderResets(rows, k) == rows[k].set_order <= rows[k - 1].set_order

\* row k of the file has another date than the row before it
DateDiffers(rows, k) == rows[k].date # rows[k - 1].date

\* C27 as stated: a new workout begins at every row whose set order resets
\* or whose date differs from that of the row before it.
C27_NewWorkoutOnResetOrDate ==
    StrongReturned =>
        LET rows == evaluated.rows
            ws == evaluated.result.workouts
        IN  \A k \in 2..Len(rows) :
               (OrderResets(rows, k) \/ DateDiffers(rows, k))
                  => PlaceOfRow(ws, k - 1)[1] # PlaceOfRow(ws, k)[1]

\* the last row of the exercise that row k goes into: the first row from k
\* on whose successor resets the set order, or the last row of the file
ClosingRow(rows, k) ==
    CHOOSE c \in k..Len(rows) :
        /\ c = Len(rows) \/ OrderResets(rows, c + 1)
        /\ \A d \in k..(c - 1) : ~OrderResets(rows, d + 1)

\* the rows at which a workout is emitted: those followed by a row of
\* another date, and the last row of the file
EmittingRows(rows) ==
    { c \in 1..Len(rows) : c = Len(rows) \/ DateDiffers(rows, c + 1) }

\* C27 amended: a reset of the set order begins a new exercise, not a new
\* workout; a workout is emitted at every row whose date differs from that
\* of the next row (and at the last row) and holds the exercises completed
\* since the previous emission, under the date of the emitting row.
C27_ResetBeginsExerciseDateEmitsWorkout ==
    StrongReturned =>
        LET rows == evaluated.rows
            ws == evaluated.result.workouts
        IN  /\ \A k \in 2..Len(rows) :
                  OrderResets(rows, k)
                     <=> << PlaceOfRow(ws, k - 1)[1], PlaceOfRow(ws, k - 1)[2] >>
                           # << PlaceOfRow(ws, k)[1], PlaceOfRow(ws, k)[2] >>
            /\ Len(ws) = Cardinality(EmittingRows(rows))
            /\ \A k \in 1..Len(rows) :
                  PlaceOfRow(ws, k)[1]
                     = 1 + Cardinality({ c \in EmittingRows(rows) : c < ClosingRow(rows, k) })
            /\ \A c \in EmittingRows(rows) :
                  ws[1 + Cardinality({ d \in EmittingRows(rows) : d < c })].start_time
                     = Get(ParseDate(rows[c].date))

\* three rows of one date, the set order resetting at the third: one
\* workout of two exercises
C27_Witness ==
    /\ StrongReturned
    /\ Len(evaluated.rows) = 3
    /\ ~DateDiffers(evaluated.rows, 2) /\ ~DateDiffers(evaluated.rows, 3)
    /\ ~OrderResets(evaluated.rows, 2) /\ OrderResets(evaluated.rows, 3)
    /\ Len(evaluated.result.workouts) = 1
    /\ Len(evaluated.result.workouts[1].exercises) = 2

\* C28: the adapter loses no row: every row becomes exactly one set of one
\* exercise of one emitted workout, the sets come in the order of the rows,
\* and there are as many sets as rows, the last workout included.
C28_NoRowLost ==
    StrongReturned =>
        LET rows == evaluated.rows
            ws == evaluated.result.workouts
        IN  /\ Cardinality(EmittedPlaces(ws)) = Len(rows)
            /\ \A k \in 1..Len(rows) :
                  /\ Cardinality(PlacesOfRow(ws, k)) = 1
                  /\ SetAt(ws, PlaceOfRow(ws, k)) = SetOfEntry(rows[k])
            /\ \A k \in 2..Len(rows) :
                  PlaceBefore(PlaceOfRow(ws, k - 1), PlaceOfRow(ws, k))

\* a file of three rows with two dates: the last row is a set of the second
\* and last workout
C28_Witness ==
    /\ StrongReturned
    /\ Len(evaluated.rows) = 3
    /\ DateDiffers(evaluated.rows, 3)
    /\ Len(evaluated.result.workouts) = 2
    /\ PlaceOfRow(evaluated.result.workouts, 3)[1] = 2

\* C29 as stated: every set of an emitted workout comes from a row of the
\* date of the workout, and every set of an emitted exercise from a row
\* whose exercise name maps to the exercise.
C29_SetsNeverCarryOver ==
    StrongReturned =>
        LET rows == evaluated.rows
            ws == evaluated.result.workouts
        IN  \A pl \in EmittedPlaces(ws) :
               LET row == rows[RowOf(SetAt(ws, pl))]
               IN  /\ ParseDate(row.date) = Some(ws[pl[1]].start_time)
                   /\ MappedExerciseId(row.exercise_name)
                         = Some(ws[pl[1]].exercises[pl[2]].exercise_id)

\* ---------------------------------------------------------------------
\* Claims about the order of the stored personal bests (Spec)

\* the projection of the n-th record of a category list
ProjectionAt(best, n) == get_personal_best(best.sets[n].data, best.lot)

\* C30: within every PB category list of an association the projections
\* for the category are strictly decreasing from the first record to the
\* last, an absent projection ranking below every present one; so the first
\* stored record is the best stored record.
C30_BestListsStrictlyDecreasing ==
    \A e \in DOMAIN assoc :
        \A i \in 1..Len(assoc[e].personal_bests) :
            LET best == assoc[e].personal_bests[i]
            IN  \A a \in 1..Len(best.sets) : \A b \in (a + 1)..Len(best.sets) :
                   OptionCmp(ProjectionAt(best, a), ProjectionAt(best, b)) = "Greater"

\* a category list of two records: the record of the second workout in
\* front of the record of the first, whose projection is absent
C30_Witness ==
    \E e \in DOMAIN assoc :
        \E i \in 1..Len(assoc[e].personal_bests) :
            LET best == assoc[e].personal_bests[i]
            IN  /\ Len(best.sets) = 2
                /\ best.sets[1].workout_id = "w2"
                /\ best.sets[2].workout_id = "w1"
                /\ IsSome(ProjectionAt(best, 1))
                /\ ProjectionAt(best, 2) = None

\* ---------------------------------------------------------------------
\* Claims about the shape of the stored personal bests (SpecStore)

\* the categories that apply to an exercise of the given type
ApplicableCategories(lot) ==
    { types_of_prs(lot)[k] : k \in 1..Len(types_of_prs(lot)) }

\* C31: the PB table of an association holds at most one entry per
\* category, every entry's list is non-empty, every category present
\* applies to the type of the exercise, and in a commit at most one set of
\* an exercise is tagged with a given category.
C31_BestTableWellFormed ==
    /\ \A e \in DOMAIN assoc :
          LET bests == assoc[e].personal_bests
          IN  /\ \A i, j \in 1..Len(bests) : bests[i].lot = bests[j].lot => i = j
              /\ \A i \in 1..Len(bests) :
                    /\ bests[i].sets # << >>
                    /\ bests[i].lot \in ApplicableCategories(ExerciseTable[e])
    /\ \A id \in DOMAIN workouts :
          \A k \in 1..Len(StoredExercises(id)) :
             \A c \in ApplicableCategories(StoredExercises(id)[k].lot) :
                Cardinality(TaggedWith(StoredExercises(id)[k], c)) <= 1

\* C32: the interaction counter of every association equals the number of
\* entries in its history and is never negative.
C32_CounterCountsHistory ==
    \A e \in DOMAIN assoc :
        /\ assoc[e].num_times_interacted = Len(assoc[e].history)
        /\ assoc[e].num_times_interacted >= 0

====
